---- MODULE Spec2Model ----
(***************************************************************************)
(* Football_Genie_Agent: the propose/confirm mutation registry             *)
(* (backend/langchain_tools.py) and the LangGraph orchestrator with its    *)
(* approval gate (backend/langgraph_agent.py).                             *)
(*                                                                         *)
(* Spec      : the registry tools called one at a time.                    *)
(* SpecAgent : chat turns and approve_action requests of the orchestrator, *)
(*             one graph node per step, the LLM a nondeterministic choice. *)
(***************************************************************************)
EXTENDS Integers, Sequences, FiniteSets, TLC

VARIABLES
    hash_seed,          \* the process's str hash, reduced: lower-cased name -> id
    favorite_teams,     \* _favorite_teams
    favorite_players,   \* _favorite_players
    user_calendar,      \* _user_calendar
    last_call,          \* the last direct tool call and what it returned
    use_llm,            \* FootballAgentGraph.use_llm
    vs_favorites,       \* vector_store documents of type favorite_team
    messages,           \* per session: checkpointed channel "messages"
    pending_approval,   \* per session: checkpointed channel "pending_approval"
    pc,                 \* per session: node the in-flight request is at
    req,                \* per session: the in-flight request
    step,               \* per session: supersteps of the running graph invocation
    executed,           \* per session: tool runs of the in-flight request
    response,           \* per session: what the last request returned
    next_call_id,       \* tool_call ids the LLM has issued so far
    requests,           \* requests accepted so far
    http_response,      \* what the last calendar endpoint call returned
    raw,                \* the upstream payload at hand
    normalized,         \* what the last normalizer or service call returned
    worker              \* per session: the tool call its worker thread is running

vars == <<hash_seed, favorite_teams, favorite_players, user_calendar, last_call,
          use_llm, vs_favorites, messages, pending_approval, pc, req, step,
          executed, response, next_call_id, requests,
          http_response, raw, normalized, worker>>

registryVars == <<favorite_teams, favorite_players, user_calendar>>
agentVars == <<use_llm, vs_favorites, messages, pending_approval, pc, req, step,
               executed, response, next_call_id, requests>>
serviceVars == <<http_response, raw, normalized, worker>>

----------------------------------------------------------------------------
(* Inputs and bounds *)

\* range of abs(hash(s)) % 10000, scaled down so that collisions occur
IdRange == 2
\* supersteps one graph invocation may take (langgraph recursion_limit)
RecursionLimit == 5
\* tool calls one LLM response carries at most
MaxToolCalls == 2
\* tool_call ids the LLM issues over a run
MaxCallIds == 2
\* requests (chat turns and approvals) accepted over a run
MaxRequests == 3

Names == {"Chiefs", "chiefs", "Broncos"}
PlayerNames == {"Mahomes", "mahomes"}
Leagues == {"NFL"}
Dates == {""}
CalendarPairs == {<<"Chiefs", "Broncos">>, <<"chiefs", "broncos">>, <<"Broncos", "Chiefs">>}
Sessions == {"s1", "s2"}
\* Python's None, in the shape of each value it stands in for
None == [tool_name |-> "", tool_args |-> <<>>, tool_call_id |-> 0]
NoRequest == [kind |-> "none", markers |-> <<>>]
NoResponse == [kind |-> "none", outcome |-> "none", response |-> <<>>,
               approved |-> FALSE, pending_approval |-> None]

\* str.lower()
Lower(s) ==
    CASE s = "Chiefs" -> "chiefs"
      [] s = "Broncos" -> "broncos"
      [] s = "Mahomes" -> "mahomes"
      [] s = "NFL" -> "nfl"
      [] s = " NFL " -> " nfl "
      [] s = "National Football League" -> "national football league"
      [] s = "NCAAF" -> "ncaaf"
      [] s = "Premier League" -> "premier league"
      [] OTHER -> s

\* str.strip()
Strip(s) ==
    CASE s = " NFL " -> "NFL"
      [] s = " nfl " -> "nfl"
      [] OTHER -> s

LowerNames == {Lower(n) : n \in Names \cup PlayerNames}

\* abs(hash(name.lower())) % 10000
HashId(name) == hash_seed[Lower(name)]

\* x if x else default
OrDefault(x, default) == IF x = "" THEN default ELSE x

\* list.pop(): the last entry goes, whatever i is
Pop_last(seq, i) == SubSeq(seq, 1, Len(seq) - 1)

\* list.pop(i)
Pop(seq, i) == [j \in 1..(Len(seq) - 1) |-> IF j < i THEN seq[j] ELSE seq[j + 1]]

\* phrase in text, both as word sequences
HasPhrase(text, phrase) ==
    \E i \in 0..(Len(text) - Len(phrase)) :
        \A j \in 1..Len(phrase) : text[i + j] = phrase[j]

\* the lists of a list, joined
RECURSIVE Flatten(_)
Flatten(seqs) == IF seqs = <<>> THEN <<>> ELSE Head(seqs) \o Flatten(Tail(seqs))

----------------------------------------------------------------------------
(* Favorite teams *)

TeamIndex(teams, name) ==
    {i \in 1..Len(teams) : Lower(teams[i].name) = Lower(name)}

FirstOf(S) == CHOOSE i \in S : \A j \in S : i <= j

add_team_to_favorites(teams, name, league) ==
    IF TeamIndex(teams, name) # {}
    THEN [coll |-> teams,
          text |-> <<name, "is", "already", "in", "your", "favorites!">>,
          markers |-> <<>>]
    ELSE [coll |-> teams,
          text |-> <<"Add", "Team", "to", "Favorites">>,
          markers |-> << [type |-> "PENDING_FAVORITE_TEAM",
                          action_type |-> "ADD_FAVORITE_TEAM",
                          id |-> HashId(name), name |-> name, league |-> league] >>]

\* slip: the duplicate check compares the names as written
confirm_add_favorite_team_case_sensitive(teams, name, league) ==
    IF \E i \in 1..Len(teams) : teams[i].name = name
    THEN [coll |-> teams,
          text |-> <<name, "is", "already", "in", "your", "favorites!">>,
          markers |-> <<>>]
    ELSE [coll |-> Append(teams, [id |-> HashId(name), name |-> name, league |-> league]),
          text |-> <<"Team", "added", "to", "favorites!">>,
          markers |-> << [type |-> "ADD_FAVORITE_TEAM",
                          id |-> HashId(name), name |-> name, league |-> league] >>]

confirm_add_favorite_team(teams, name, league) ==
    IF TeamIndex(teams, name) # {}
    THEN [coll |-> teams,
          text |-> <<name, "is", "already", "in", "your", "favorites!">>,
          markers |-> <<>>]
    ELSE [coll |-> Append(teams, [id |-> HashId(name), name |-> name, league |-> league]),
          text |-> <<"Team", "added", "to", "favorites!">>,
          markers |-> << [type |-> "ADD_FAVORITE_TEAM",
                          id |-> HashId(name), name |-> name, league |-> league] >>]

remove_team_from_favorites(teams, name) ==
    LET idx == TeamIndex(teams, name)
        team_id == IF idx # {} THEN teams[FirstOf(idx)].id ELSE HashId(name)
    IN  [coll |-> teams,
         text |-> <<"Remove", "Team", "from", "Favorites">>,
         markers |-> << [type |-> "PENDING_REMOVE_FAVORITE_TEAM",
                         action_type |-> "REMOVE_FAVORITE_TEAM",
                         id |-> team_id, name |-> name] >>]

confirm_remove_favorite_team(teams, name) ==
    LET idx == TeamIndex(teams, name)
        team_id == IF idx # {} THEN teams[FirstOf(idx)].id ELSE HashId(name)
    IN  [coll |-> IF idx # {} THEN Pop(teams, FirstOf(idx)) ELSE teams,
         text |-> <<"Team", "removed", "from", "favorites!">>,
         markers |-> << [type |-> "REMOVE_FAVORITE_TEAM",
                         id |-> team_id, name |-> name] >>]

----------------------------------------------------------------------------
(* Favorite players *)

PlayerIndex(players, name) ==
    {i \in 1..Len(players) : Lower(players[i].name) = Lower(name)}

\* slip: the proposal numbers the entry by its place in the list
add_player_to_favorites_numbered(players, name, team, position) ==
    IF PlayerIndex(players, name) # {}
    THEN [coll |-> players,
          text |-> <<name, "is", "already", "in", "your", "favorites!">>,
          markers |-> <<>>]
    ELSE [coll |-> players,
          text |-> <<"Add", "Player", "to", "Favorites">>,
          markers |-> << [type |-> "PENDING_FAVORITE_PLAYER",
                          action_type |-> "ADD_FAVORITE_PLAYER",
                          id |-> Len(players) + 1, name |-> name,
                          team |-> team, position |-> position] >>]

add_player_to_favorites(players, name, team, position) ==
    IF PlayerIndex(players, name) # {}
    THEN [coll |-> players,
          text |-> <<name, "is", "already", "in", "your", "favorites!">>,
          markers |-> <<>>]
    ELSE [coll |-> players,
          text |-> <<"Add", "Player", "to", "Favorites">>,
          markers |-> << [type |-> "PENDING_FAVORITE_PLAYER",
                          action_type |-> "ADD_FAVORITE_PLAYER",
                          id |-> HashId(name), name |-> name,
                          team |-> team, position |-> position] >>]

\* slip: a duplicate replaces the stored entry
confirm_add_favorite_player_overwriting(players, name, team, position) ==
    LET idx == PlayerIndex(players, name) IN
    IF idx # {}
    THEN [coll |-> [players EXCEPT ![FirstOf(idx)] =
                        [id |-> HashId(name), name |-> name,
                         team |-> team, position |-> position]],
          text |-> <<name, "is", "already", "in", "your", "favorites!">>,
          markers |-> <<>>]
    ELSE [coll |-> Append(players, [id |-> HashId(name), name |-> name,
                                    team |-> team, position |-> position]),
          text |-> <<"Player", "added", "to", "favorites!">>,
          markers |-> << [type |-> "ADD_FAVORITE_PLAYER",
                          id |-> HashId(name), name |-> name,
                          team |-> team, position |-> position] >>]

confirm_add_favorite_player(players, name, team, position) ==
    IF PlayerIndex(players, name) # {}
    THEN [coll |-> players,
          text |-> <<name, "is", "already", "in", "your", "favorites!">>,
          markers |-> <<>>]
    ELSE [coll |-> Append(players, [id |-> HashId(name), name |-> name,
                                    team |-> team, position |-> position]),
          text |-> <<"Player", "added", "to", "favorites!">>,
          markers |-> << [type |-> "ADD_FAVORITE_PLAYER",
                          id |-> HashId(name), name |-> name,
                          team |-> team, position |-> position] >>]

remove_player_from_favorites(players, name) ==
    LET idx == PlayerIndex(players, name)
        player_id == IF idx # {} THEN players[FirstOf(idx)].id ELSE HashId(name)
    IN  [coll |-> players,
         text |-> <<"Remove", "Player", "from", "Favorites">>,
         markers |-> << [type |-> "PENDING_REMOVE_FAVORITE_PLAYER",
                         action_type |-> "REMOVE_FAVORITE_PLAYER",
                         id |-> player_id, name |-> name] >>]

confirm_remove_favorite_player(players, name) ==
    LET idx == PlayerIndex(players, name)
        player_id == IF idx # {} THEN players[FirstOf(idx)].id ELSE HashId(name)
    IN  [coll |-> IF idx # {} THEN Pop(players, FirstOf(idx)) ELSE players,
         text |-> <<"Player", "removed", "from", "favorites!">>,
         markers |-> << [type |-> "REMOVE_FAVORITE_PLAYER",
                         id |-> player_id, name |-> name] >>]

----------------------------------------------------------------------------
(* Calendar *)

CalendarIndex(calendar, home_team, away_team) ==
    {i \in 1..Len(calendar) :
        /\ Lower(calendar[i].home_team) = Lower(home_team)
        /\ Lower(calendar[i].away_team) = Lower(away_team)}

\* slip: the proposal already stores the entry
add_match_to_calendar_storing(calendar, home_team, away_team, date, time, league, venue) ==
    IF CalendarIndex(calendar, home_team, away_team) # {}
    THEN [coll |-> calendar,
          text |-> <<home_team, "vs", away_team, "is", "already", "in", "your", "calendar!">>,
          markers |-> <<>>]
    ELSE [coll |-> Append(calendar,
                     [id |-> Len(calendar) + 1,
                      home_team |-> home_team, away_team |-> away_team,
                      date |-> OrDefault(date, "TBD"), time |-> OrDefault(time, "TBD"),
                      league |-> OrDefault(league, "NFL"),
                      venue |-> OrDefault(venue, "TBD")]),
          text |-> <<"Game", "Details", "for", "Calendar">>,
          markers |-> << [type |-> "PENDING_APPROVAL",
                          action_type |-> "ADD_TO_CALENDAR",
                          home_team |-> home_team, away_team |-> away_team,
                          date |-> OrDefault(date, "TBD"), time |-> OrDefault(time, "TBD"),
                          league |-> OrDefault(league, "NFL"),
                          venue |-> OrDefault(venue, "TBD")] >>]

add_match_to_calendar(calendar, home_team, away_team, date, time, league, venue) ==
    IF CalendarIndex(calendar, home_team, away_team) # {}
    THEN [coll |-> calendar,
          text |-> <<home_team, "vs", away_team, "is", "already", "in", "your", "calendar!">>,
          markers |-> <<>>]
    ELSE [coll |-> calendar,
          text |-> <<"Game", "Details", "for", "Calendar">>,
          markers |-> << [type |-> "PENDING_APPROVAL",
                          action_type |-> "ADD_TO_CALENDAR",
                          home_team |-> home_team, away_team |-> away_team,
                          date |-> OrDefault(date, "TBD"), time |-> OrDefault(time, "TBD"),
                          league |-> OrDefault(league, "NFL"),
                          venue |-> OrDefault(venue, "TBD")] >>]

confirm_add_to_calendar(calendar, home_team, away_team, date, time, league, venue) ==
    IF CalendarIndex(calendar, home_team, away_team) # {}
    THEN [coll |-> calendar,
          text |-> <<home_team, "vs", away_team, "is", "already", "in", "your", "calendar!">>,
          markers |-> <<>>]
    ELSE [coll |-> Append(calendar,
                     [id |-> Len(calendar) + 1,
                      home_team |-> home_team, away_team |-> away_team,
                      date |-> OrDefault(date, "TBD"), time |-> OrDefault(time, "TBD"),
                      league |-> OrDefault(league, "NFL"),
                      venue |-> OrDefault(venue, "TBD")]),
          text |-> <<"Game", "added", "to", "your", "calendar!">>,
          markers |-> << [type |-> "ADD_TO_CALENDAR",
                          home_team |-> home_team, away_team |-> away_team,
                          date |-> OrDefault(date, "TBD"), time |-> OrDefault(time, "TBD"),
                          league |-> OrDefault(league, "NFL"),
                          venue |-> OrDefault(venue, "TBD")] >>]

remove_match_from_calendar(calendar, home_team, away_team) ==
    IF CalendarIndex(calendar, home_team, away_team) = {}
    THEN [coll |-> calendar,
          text |-> <<home_team, "vs", away_team, "was", "not", "found", "in", "your", "calendar.">>,
          markers |-> <<>>]
    ELSE [coll |-> calendar,
          text |-> <<"Confirm", "Removal">>,
          markers |-> << [type |-> "PENDING_REMOVAL",
                          action_type |-> "REMOVE_FROM_CALENDAR",
                          home_team |-> home_team, away_team |-> away_team] >>]

confirm_remove_from_calendar(calendar, home_team, away_team) ==
    LET idx == CalendarIndex(calendar, home_team, away_team)
    IN  IF idx # {}
        THEN [coll |-> Pop(calendar, FirstOf(idx)),
              text |-> <<"Game", "removed", "from", "your", "calendar!">>,
              markers |-> << [type |-> "REMOVE_FROM_CALENDAR",
                              home_team |-> home_team, away_team |-> away_team] >>]
        ELSE [coll |-> calendar,
              text |-> <<home_team, "vs", away_team, "was", "not", "found", "in", "your", "calendar.">>,
              markers |-> <<>>]

----------------------------------------------------------------------------
(* The registry tools invoked one at a time (tool.invoke) *)

NoCall == [op |-> "none", key |-> <<>>, present |-> FALSE, text |-> <<>>, markers |-> <<>>]

Returned(op, key, present, out) ==
    [op |-> op, key |-> key, present |-> present, text |-> out.text, markers |-> out.markers]

InvokeAddTeam ==
    \E name \in Names, league \in Leagues :
        LET out == add_team_to_favorites(favorite_teams, name, league) IN
        /\ favorite_teams' = out.coll
        /\ last_call' = Returned("add_team_to_favorites", <<name>>,
                                 TeamIndex(favorite_teams, name) # {}, out)
        /\ UNCHANGED <<hash_seed, favorite_players, user_calendar, agentVars, serviceVars>>

InvokeConfirmAddTeam ==
    \E name \in Names, league \in Leagues :
        LET out == confirm_add_favorite_team(favorite_teams, name, league) IN
        /\ favorite_teams' = out.coll
        /\ last_call' = Returned("confirm_add_favorite_team", <<name>>,
                                 TeamIndex(favorite_teams, name) # {}, out)
        /\ UNCHANGED <<hash_seed, favorite_players, user_calendar, agentVars, serviceVars>>

InvokeRemoveTeam ==
    \E name \in Names :
        LET out == remove_team_from_favorites(favorite_teams, name) IN
        /\ favorite_teams' = out.coll
        /\ last_call' = Returned("remove_team_from_favorites", <<name>>,
                                 TeamIndex(favorite_teams, name) # {}, out)
        /\ UNCHANGED <<hash_seed, favorite_players, user_calendar, agentVars, serviceVars>>

InvokeConfirmRemoveTeam ==
    \E name \in Names :
        LET out == confirm_remove_favorite_team(favorite_teams, name) IN
        /\ favorite_teams' = out.coll
        /\ last_call' = Returned("confirm_remove_favorite_team", <<name>>,
                                 TeamIndex(favorite_teams, name) # {}, out)
        /\ UNCHANGED <<hash_seed, favorite_players, user_calendar, agentVars, serviceVars>>

InvokeAddPlayer ==
    \E name \in PlayerNames :
        LET out == add_player_to_favorites(favorite_players, name, "", "") IN
        /\ favorite_players' = out.coll
        /\ last_call' = Returned("add_player_to_favorites", <<name>>,
                                 PlayerIndex(favorite_players, name) # {}, out)
        /\ UNCHANGED <<hash_seed, favorite_teams, user_calendar, agentVars, serviceVars>>

InvokeConfirmAddPlayer ==
    \E name \in PlayerNames :
        LET out == confirm_add_favorite_player(favorite_players, name, "", "") IN
        /\ favorite_players' = out.coll
        /\ last_call' = Returned("confirm_add_favorite_player", <<name>>,
                                 PlayerIndex(favorite_players, name) # {}, out)
        /\ UNCHANGED <<hash_seed, favorite_teams, user_calendar, agentVars, serviceVars>>

InvokeRemovePlayer ==
    \E name \in PlayerNames :
        LET out == remove_player_from_favorites(favorite_players, name) IN
        /\ favorite_players' = out.coll
        /\ last_call' = Returned("remove_player_from_favorites", <<name>>,
                                 PlayerIndex(favorite_players, name) # {}, out)
        /\ UNCHANGED <<hash_seed, favorite_teams, user_calendar, agentVars, serviceVars>>

InvokeConfirmRemovePlayer ==
    \E name \in PlayerNames :
        LET out == confirm_remove_favorite_player(favorite_players, name) IN
        /\ favorite_players' = out.coll
        /\ last_call' = Returned("confirm_remove_favorite_player", <<name>>,
                                 PlayerIndex(favorite_players, name) # {}, out)
        /\ UNCHANGED <<hash_seed, favorite_teams, user_calendar, agentVars, serviceVars>>

InvokeAddMatch ==
    \E pair \in CalendarPairs, date \in Dates :
        LET out == add_match_to_calendar(user_calendar, pair[1], pair[2], date, "", "", "") IN
        /\ user_calendar' = out.coll
        /\ last_call' = Returned("add_match_to_calendar", pair,
                                 CalendarIndex(user_calendar, pair[1], pair[2]) # {}, out)
        /\ UNCHANGED <<hash_seed, favorite_teams, favorite_players, agentVars, serviceVars>>

InvokeConfirmAddMatch ==
    \E pair \in CalendarPairs, date \in Dates :
        LET out == confirm_add_to_calendar(user_calendar, pair[1], pair[2], date, "", "", "") IN
        /\ user_calendar' = out.coll
        /\ last_call' = Returned("confirm_add_to_calendar", pair,
                                 CalendarIndex(user_calendar, pair[1], pair[2]) # {}, out)
        /\ UNCHANGED <<hash_seed, favorite_teams, favorite_players, agentVars, serviceVars>>

InvokeRemoveMatch ==
    \E pair \in CalendarPairs :
        LET out == remove_match_from_calendar(user_calendar, pair[1], pair[2]) IN
        /\ user_calendar' = out.coll
        /\ last_call' = Returned("remove_match_from_calendar", pair,
                                 CalendarIndex(user_calendar, pair[1], pair[2]) # {}, out)
        /\ UNCHANGED <<hash_seed, favorite_teams, favorite_players, agentVars, serviceVars>>

InvokeConfirmRemoveMatch ==
    \E pair \in CalendarPairs :
        LET out == confirm_remove_from_calendar(user_calendar, pair[1], pair[2]) IN
        /\ user_calendar' = out.coll
        /\ last_call' = Returned("confirm_remove_from_calendar", pair,
                                 CalendarIndex(user_calendar, pair[1], pair[2]) # {}, out)
        /\ UNCHANGED <<hash_seed, favorite_teams, favorite_players, agentVars, serviceVars>>

InitRegistry ==
    /\ hash_seed \in [LowerNames -> 0..(IdRange - 1)]
    /\ favorite_teams = <<>>
    /\ favorite_players = <<>>
    /\ user_calendar = <<>>
    /\ last_call = NoCall

\* before any endpoint or normalizer call
NoHttpResponse == [endpoint |-> "none", key |-> <<>>, present |-> FALSE,
                   message |-> <<>>, matches |-> <<>>, count |-> 0]
NoPayload == [kind |-> "none", data |-> <<>>]
NotCalled == [op |-> "none", team |-> "", status |-> "", fetched |-> FALSE,
              raised |-> FALSE, result |-> <<>>]
\* a worker thread that has run no tool call yet
NoWork == [at |-> "idle", tool |-> "", key |-> <<>>, present |-> FALSE,
           entry |-> <<>>, calls |-> 0]

InitServiceIdle ==
    /\ http_response = NoHttpResponse
    /\ raw = NoPayload
    /\ normalized = NotCalled
    /\ worker = [s \in Sessions |-> NoWork]

InitAgentIdle ==
    /\ vs_favorites = {}
    /\ messages = [s \in Sessions |-> <<>>]
    /\ pending_approval = [s \in Sessions |-> None]
    /\ pc = [s \in Sessions |-> "idle"]
    /\ req = [s \in Sessions |-> NoRequest]
    /\ step = [s \in Sessions |-> 0]
    /\ executed = [s \in Sessions |-> <<>>]
    /\ response = [s \in Sessions |-> NoResponse]
    /\ next_call_id = 0
    /\ requests = 0

Init ==
    /\ InitRegistry
    /\ use_llm = TRUE
    /\ InitAgentIdle
    /\ InitServiceIdle

Next ==
    \/ InvokeAddTeam
    \/ InvokeConfirmAddTeam
    \/ InvokeRemoveTeam
    \/ InvokeConfirmRemoveTeam
    \/ InvokeAddPlayer
    \/ InvokeConfirmAddPlayer
    \/ InvokeRemovePlayer
    \/ InvokeConfirmRemovePlayer
    \/ InvokeAddMatch
    \/ InvokeConfirmAddMatch
    \/ InvokeRemoveMatch
    \/ InvokeConfirmRemoveMatch

Spec == Init /\ [][Next]_vars

----------------------------------------------------------------------------
(* The HTTP calendar endpoints (backend/server.py) *)

\* _user_calendar.copy()
get_user_calendar(calendar) == calendar

HttpResponse(endpoint, key, present, message, calendar) ==
    [endpoint |-> endpoint, key |-> key, present |-> present,
     message |-> message, matches |-> calendar, count |-> Len(calendar)]

\* GET /api/calendar
GetCalendar ==
    /\ http_response' = HttpResponse("GET /api/calendar", <<>>, FALSE, <<>>,
                                      get_user_calendar(user_calendar))
    /\ UNCHANGED <<hash_seed, registryVars, last_call, agentVars, raw, normalized, worker>>

\* POST /api/calendar: invokes the tool, drops its result, returns the calendar
PostCalendar ==
    \E pair \in CalendarPairs, date \in Dates :
        LET out == add_match_to_calendar(user_calendar, pair[1], pair[2],
                       OrDefault(date, "TBD"), "TBD", "NFL", "TBD") IN
        /\ user_calendar' = out.coll
        /\ last_call' = Returned("add_match_to_calendar", pair,
                                 CalendarIndex(user_calendar, pair[1], pair[2]) # {}, out)
        /\ http_response' = HttpResponse("POST /api/calendar", pair,
                                 CalendarIndex(user_calendar, pair[1], pair[2]) # {},
                                 <<"Added", pair[1], "vs", pair[2], "to", "calendar">>,
                                 get_user_calendar(out.coll))
        /\ UNCHANGED <<hash_seed, favorite_teams, favorite_players, agentVars,
                       raw, normalized, worker>>

\* DELETE /api/calendar: invokes the tool, drops its result, returns the calendar
DeleteCalendar ==
    \E pair \in CalendarPairs :
        LET out == remove_match_from_calendar(user_calendar, pair[1], pair[2]) IN
        /\ user_calendar' = out.coll
        /\ last_call' = Returned("remove_match_from_calendar", pair,
                                 CalendarIndex(user_calendar, pair[1], pair[2]) # {}, out)
        /\ http_response' = HttpResponse("DELETE /api/calendar", pair,
                                 CalendarIndex(user_calendar, pair[1], pair[2]) # {},
                                 <<"Removed", pair[1], "vs", pair[2], "from", "calendar">>,
                                 get_user_calendar(out.coll))
        /\ UNCHANGED <<hash_seed, favorite_teams, favorite_players, agentVars,
                       raw, normalized, worker>>

\* the server process: the endpoints, and the calendar tools the agent runs
InitServer ==
    /\ hash_seed = [n \in LowerNames |-> 0]
    /\ favorite_teams = <<>>
    /\ favorite_players = <<>>
    /\ user_calendar = <<>>
    /\ last_call = NoCall
    /\ use_llm = TRUE
    /\ InitAgentIdle
    /\ InitServiceIdle

NextServer ==
    \/ GetCalendar
    \/ PostCalendar
    \/ DeleteCalendar
    \/ InvokeAddMatch
    \/ InvokeConfirmAddMatch
    \/ InvokeRemoveMatch
    \/ InvokeConfirmRemoveMatch

SpecServer == InitServer /\ [][NextServer]_vars

----------------------------------------------------------------------------
(* Team names *)

\* standing["team"] of the first standing whose name contains team_name
StandingTeam(team_name) ==
    CASE Lower(team_name) = "chiefs" -> "Kansas City Chiefs"
      [] Lower(team_name) = "broncos" -> "Denver Broncos"
      [] OTHER -> team_name

\* team_name.lower() in fav.lower(), over the names above
NameWithin(team_name, fav) == fav = StandingTeam(team_name)

----------------------------------------------------------------------------
(* Upstream JSON values and the normalizers (backend/espn_api.py).  Of each *)
(* payload the model keeps the fields the normalized id, sides, score,     *)
(* rank, status, conference and division are computed from.                *)

Absent == [t |-> "absent", v |-> 0]                 \* the key is missing
JsonNull == [t |-> "null", v |-> 0]                 \* null, Python's None
Num(n) == [t |-> "number", v |-> n]                 \* 21
NumStr(n) == [t |-> "numeric_string", v |-> n]      \* "21"
Junk == [t |-> "string", v |-> 0]                   \* "abc"
Infinity == [t |-> "infinity", v |-> 0]             \* "inf"
Raise == [t |-> "raise", v |-> 0]                   \* the expression raised

\* dict.get(key, default)
Get(value, default) == IF value = Absent THEN default ELSE value

\* int(float("inf")) raises OverflowError, which the handler does not name
_safe_int(value) ==
    CASE value.t = "null" -> Num(0)
      [] value.t \in {"number", "numeric_string"} -> Num(value.v)
      [] value.t = "infinity" -> Raise
      [] OTHER -> Num(0)

\* float(value)
Float(value) ==
    CASE value.t \in {"number", "numeric_string", "infinity"} -> value
      [] OTHER -> Raise

\* slip: halftime is not counted as in progress
StatusOf_halftime_scheduled(status_name) ==
    CASE status_name = "STATUS_FINAL" -> "final"
      [] status_name \in {"STATUS_IN_PROGRESS", "STATUS_END_PERIOD"} -> "in_progress"
      [] status_name = "STATUS_POSTPONED" -> "postponed"
      [] status_name = "STATUS_CANCELED" -> "canceled"
      [] OTHER -> "scheduled"

\* the if/elif chain on status_name
StatusOf(status_name) ==
    CASE status_name = "STATUS_FINAL" -> "final"
      [] status_name \in {"STATUS_IN_PROGRESS", "STATUS_HALFTIME", "STATUS_END_PERIOD"} ->
            "in_progress"
      [] status_name = "STATUS_POSTPONED" -> "postponed"
      [] status_name = "STATUS_CANCELED" -> "canceled"
      [] OTHER -> "scheduled"

\* c.get("curatedRank", {}).get("current", 0)
CuratedRank(c) ==
    CASE c.curatedRank = "absent" -> Num(0)
      [] c.curatedRank = "null" -> Raise
      [] OTHER -> Get(c.current, Num(0))

\* rank if rank > 0 else None
RankOrNone(rank) ==
    CASE rank.t = "raise" -> Raise
      [] rank.t = "number" -> IF rank.v > 0 THEN rank ELSE JsonNull
      [] rank.t = "infinity" -> rank
      [] OTHER -> Raise

\* the "home_team" / "away_team" object of a game
Side(c) ==
    [name |-> c.name,
     score |-> _safe_int(Get(c.score, JsonNull)),
     rank |-> RankOrNone(CuratedRank(c))]

LastOf(S) == CHOOSE i \in S : \A j \in S : j <= i

\* the sides taken by position alone
Sides_positional(competitors) == [home |-> 1, away |-> 2]

\* the loop over the competitors and the positional default that follows it
Sides(competitors) ==
    LET homes == {i \in 1..Len(competitors) : competitors[i].homeAway = "home"}
        aways == {i \in 1..Len(competitors) : competitors[i].homeAway # "home"}
    IN  IF homes = {} \/ aways = {}
        THEN [home |-> 1, away |-> 2]
        ELSE [home |-> LastOf(homes), away |-> LastOf(aways)]

\* the game one event yields; an event is skipped without a competition or
\* with fewer than 2 competitors
Game(event) ==
    LET sides == Sides(event.competitors)
        status_name == OrDefault(event.status_name, "STATUS_SCHEDULED")
    IN  [id |-> event.id,
         home_team |-> Side(event.competitors[sides.home]),
         away_team |-> Side(event.competitors[sides.away]),
         status |-> StatusOf(status_name)]

Skipped(event) == ~event.has_competition \/ Len(event.competitors) < 2

GameRaises(game) ==
    \E side \in {game.home_team, game.away_team} : Raise \in {side.score, side.rank}

RECURSIVE GamesOf(_)
GamesOf(events) ==
    IF events = <<>> THEN <<>>
    ELSE IF Skipped(Head(events)) THEN GamesOf(Tail(events))
    ELSE <<Game(Head(events))>> \o GamesOf(Tail(events))

Parsed(raised, result) == [raised |-> raised, result |-> IF raised THEN <<>> ELSE result]

parse_football_games(scoreboard_data) ==
    LET games == GamesOf(scoreboard_data.events) IN
    Parsed(\E k \in 1..Len(games) : GameRaises(games[k]), games)

\* _parse_football_standing_entry
StandingEntry(entry, conference, division) ==
    LET rank == _safe_int(Get(entry.rank, Num(0)))
        seed == _safe_int(Get(entry.playoffSeed, Num(0)))
    IN  [team |-> entry.team,
         conference |-> conference,
         division |-> division,
         rank |-> IF rank = Raise \/ rank.v # 0 THEN rank ELSE seed,
         wins |-> _safe_int(Get(entry.wins, Num(0))),
         win_pct |-> Float(Get(entry.winPercent, Num(0)))]

StandingRaises(standing) == Raise \in {standing.rank, standing.wins, standing.win_pct}

EntriesOf(entries, conference, division) ==
    [i \in 1..Len(entries) |-> StandingEntry(entries[i], conference, division)]

GroupStandings(group) ==
    IF group.children # <<>>
    THEN Flatten([k \in 1..Len(group.children) |->
                    EntriesOf(group.children[k].entries, group.name,
                              group.children[k].name)])
    ELSE EntriesOf(group.entries, group.name, "")

parse_football_standings(standings_data) ==
    LET children == standings_data.children
        standings ==
            IF children # <<>>
            THEN Flatten([k \in 1..Len(children) |-> GroupStandings(children[k])])
            ELSE EntriesOf(standings_data.entries, "", "")
    IN  Parsed(\E k \in 1..Len(standings) : StandingRaises(standings[k]), standings)

\* _parse_player: athlete.get("position", {}).get("abbreviation", position_group)
Player(athlete, position_group) ==
    [name |-> athlete.name,
     position |-> CASE athlete.position = "absent" -> position_group
                    [] athlete.position = "null" -> "raise"
                    [] OTHER -> OrDefault(athlete.abbreviation, position_group)]

PlayersOf(items, position_group) ==
    [i \in 1..Len(items) |-> Player(items[i], position_group)]

parse_football_roster(roster_data) ==
    LET athletes == roster_data.athletes
        players ==
            IF athletes # <<>>
            THEN Flatten([k \in 1..Len(athletes) |->
                            PlayersOf(athletes[k].items, athletes[k].position)])
            ELSE PlayersOf(roster_data.roster, "")
    IN  Parsed(\E k \in 1..Len(players) : players[k].position = "raise", players)

----------------------------------------------------------------------------
(* Confirm-add tools run by the worker threads of concurrent chat turns:
   the tools node awaits each synchronous tool in the executor's thread pool,
   so the statements of two calls interleave *)

\* tool calls one session's worker runs
MaxCalls == 1

\* _favorite_teams.append(team_entry), were it to repeat the check under a lock
AppendTeam_rechecked(teams, team_entry) ==
    IF TeamIndex(teams, team_entry.name) # {} THEN teams ELSE Append(teams, team_entry)

\* _favorite_teams.append(team_entry)
AppendTeam(teams, team_entry) == Append(teams, team_entry)

\* _user_calendar.append(match_entry)
AppendMatch(calendar, match_entry) == Append(calendar, match_entry)

\* a worker takes the next tool call of its session
Starts(s) ==
    /\ worker[s].at \in {"idle", "done"}
    /\ worker[s].calls < MaxCalls

\* confirm_add_favorite_team: the loop that looks for the name
ConfirmAddTeamCheck(s) ==
    /\ Starts(s)
    /\ \E name \in Names, league \in Leagues :
          LET present == TeamIndex(favorite_teams, name) # {} IN
          worker' = [worker EXCEPT ![s] =
                        [at |-> IF present THEN "done" ELSE "checked",
                         tool |-> "confirm_add_favorite_team",
                         key |-> <<name>>, present |-> present,
                         entry |-> [id |-> HashId(name), name |-> name, league |-> league],
                         calls |-> @.calls + 1]]
    /\ UNCHANGED <<hash_seed, registryVars, last_call, agentVars, http_response, raw,
                   normalized>>

\* confirm_add_favorite_team: the append and the return
ConfirmAddTeamAppend(s) ==
    /\ worker[s].at = "checked"
    /\ worker[s].tool = "confirm_add_favorite_team"
    /\ favorite_teams' = AppendTeam(favorite_teams, worker[s].entry)
    /\ worker' = [worker EXCEPT ![s].at = "done"]
    /\ UNCHANGED <<hash_seed, favorite_players, user_calendar, last_call, agentVars,
                   http_response, raw, normalized>>

\* confirm_add_to_calendar: the loop that looks for the pair
ConfirmAddToCalendarCheck(s) ==
    /\ Starts(s)
    /\ \E pair \in CalendarPairs :
          LET present == CalendarIndex(user_calendar, pair[1], pair[2]) # {} IN
          worker' = [worker EXCEPT ![s] =
                        [at |-> IF present THEN "done" ELSE "checked",
                         tool |-> "confirm_add_to_calendar",
                         key |-> pair, present |-> present,
                         entry |-> <<>>, calls |-> @.calls + 1]]
    /\ UNCHANGED <<hash_seed, registryVars, last_call, agentVars, http_response, raw,
                   normalized>>

\* confirm_add_to_calendar: match_entry, whose id is the length read now
ConfirmAddToCalendarCreate(s) ==
    /\ worker[s].at = "checked"
    /\ worker[s].tool = "confirm_add_to_calendar"
    /\ \E date \in Dates, league \in Leagues :
          worker' = [worker EXCEPT ![s].at = "created",
                        ![s].entry =
                            [id |-> Len(user_calendar) + 1,
                             home_team |-> worker[s].key[1],
                             away_team |-> worker[s].key[2],
                             date |-> OrDefault(date, "TBD"), time |-> "TBD",
                             league |-> OrDefault(league, "NFL"), venue |-> "TBD"]]
    /\ UNCHANGED <<hash_seed, registryVars, last_call, agentVars, http_response, raw,
                   normalized>>

\* confirm_add_to_calendar: the append and the return
ConfirmAddToCalendarAppend(s) ==
    /\ worker[s].at = "created"
    /\ user_calendar' = AppendMatch(user_calendar, worker[s].entry)
    /\ worker' = [worker EXCEPT ![s].at = "done"]
    /\ UNCHANGED <<hash_seed, favorite_teams, favorite_players, last_call, agentVars,
                   http_response, raw, normalized>>

InitWorkers ==
    /\ InitRegistry
    /\ use_llm = TRUE
    /\ InitAgentIdle
    /\ InitServiceIdle

NextWorkers ==
    \E s \in Sessions :
        \/ ConfirmAddTeamCheck(s)
        \/ ConfirmAddTeamAppend(s)
        \/ ConfirmAddToCalendarCheck(s)
        \/ ConfirmAddToCalendarCreate(s)
        \/ ConfirmAddToCalendarAppend(s)

SpecWorkers == InitWorkers /\ [][NextWorkers]_vars

----------------------------------------------------------------------------
(* League names (backend/espn_api.py, backend/football_data.py) *)

FOOTBALL_LEAGUES ==
    [k \in {"nfl", "national football league"} |-> "nfl"]
    @@ [k \in {"ncaaf", "college football", "college-football", "cfb", "fbs"} |->
           "college-football"]
    @@ [k \in {"cfl", "canadian football"} |-> "cfl"]
    @@ [k \in {"xfl", "usfl", "ufl", "aaf"} |-> k]
    @@ [k \in {"arena", "afl"} |-> "arena-football"]

\* dict.get(key, default)
DictGet(dict, key, default) == IF key \in DOMAIN dict THEN dict[key] ELSE default

\* ESPNClient._normalize_football_league
_normalize_football_league(league) == DictGet(FOOTBALL_LEAGUES, Lower(league), league)

\* FootballDataService._normalize_league; "" stands for None as well
_normalize_league(league) ==
    IF league = ""
    THEN "nfl"
    ELSE LET league_lower == Strip(Lower(league)) IN
         DictGet(FOOTBALL_LEAGUES, league_lower, league_lower)

----------------------------------------------------------------------------
(* The knowledge store (backend/vector_store.py) *)

\* a Python value: its type and what it holds
PyValue(t, v) == [t |-> t, v |-> v]

\* json.dumps(value): a str that holds the serialized list or dict
json_dumps(value) == PyValue("str", 10 + value.v)

\* the loop body of add with every value stored as it comes
ProcessedValue_unserialized(value) == value

\* the loop body of add, for a value that is not None
ProcessedValue(value) ==
    IF value.t \in {"list", "dict"} THEN json_dumps(value) ELSE value

\* the metadatas argument of collection.add
processed_metadata(document) ==
    LET kept == {key \in DOMAIN document.metadata :
                    document.metadata[key].t # "NoneType"}
    IN  [key \in {"type", "created_at"} \cup kept |->
            IF key \in kept THEN ProcessedValue(document.metadata[key])
            ELSE IF key = "type" THEN document.type
            ELSE document.created_at]

----------------------------------------------------------------------------
(* The domain service (backend/football_data.py) *)

\* what _sync_request returns on a transport failure or a non-2xx status
EmptyResult == [has_events |-> FALSE, events |-> <<>>]

\* status_map.get(game_status, game_status)
MatchStatus(game_status) ==
    CASE game_status = "final" -> "finished"
      [] game_status = "in_progress" -> "live"
      [] OTHER -> game_status

\* the team and status filters of get_matches
Kept(g, team, status) ==
    /\ team # "" => \/ NameWithin(team, g.home_team.name)
                    \/ NameWithin(team, g.away_team.name)
    /\ status = "live" => g.status = "in_progress"
    /\ status = "finished" => g.status = "final"
    /\ status = "scheduled" => g.status = "scheduled"

Match(g) ==
    [id |-> g.id, home_team |-> g.home_team.name, away_team |-> g.away_team.name,
     home_score |-> g.home_team.score, away_score |-> g.away_team.score,
     status |-> MatchStatus(g.status)]

\* scoreboard: what espn_client.get_football_scoreboard returned
get_matches(scoreboard, team, status) ==
    IF ~scoreboard.has_events
    THEN Parsed(FALSE, <<>>)
    ELSE LET parsed_games == parse_football_games(scoreboard)
             KeptGame(g) == Kept(g, team, status)
             kept == SelectSeq(parsed_games.result, KeptGame)
         IN  Parsed(FALSE, [i \in 1..Len(kept) |-> Match(kept[i])])

----------------------------------------------------------------------------
(* The gateway fetch (backend/espn_api.py) *)

NoError == ""

\* the except clause of _sync_request, were it to name the transport errors only
Caught_transport_only(error) == error \in {"ConnectError", "ReadTimeout"}

\* except httpx.HTTPError: the transport errors and the status error are
\* HTTPErrors, the decoding error of response.json() is a ValueError
Caught(error) == error \in {"ConnectError", "ReadTimeout", "HTTPStatusError"}

\* what the try block raises: client.get fails, raise_for_status rejects a
\* status outside 200..299, response.json() rejects a body that is not JSON
RaisedBy(upstream) ==
    IF upstream.failure # NoError THEN upstream.failure
    ELSE IF upstream.status_code \notin 200..299 THEN "HTTPStatusError"
    ELSE IF ~upstream.json THEN "JSONDecodeError"
    ELSE NoError

_sync_request(upstream) ==
    LET error == RaisedBy(upstream) IN
    IF error = NoError THEN Parsed(FALSE, <<upstream.body>>)
    ELSE IF Caught(error) THEN Parsed(FALSE, <<EmptyResult>>)
    ELSE Parsed(TRUE, <<>>)

----------------------------------------------------------------------------
(* Upstream payloads, and the normalizers and the service applied to them *)

\* events of one scoreboard
MaxEvents == 2
\* competitors of one competition
MaxCompetitors == 2
\* entries of one standings group, athletes of one roster group
MaxEntries == 2

\* the lists of at most n different members of S
ListsOf(S, n) ==
    {l \in UNION {[1..k -> S] : k \in 0..n} :
        \A i, j \in 1..Len(l) : l[i] = l[j] => i = j}

Competitors ==
    { [homeAway |-> "home", name |-> "Kansas City Chiefs", score |-> NumStr(21),
       curatedRank |-> "object", current |-> Num(5)],
      [homeAway |-> "away", name |-> "Denver Broncos", score |-> Absent,
       curatedRank |-> "absent", current |-> Absent],
      [homeAway |-> "", name |-> "Denver Broncos", score |-> Junk,
       curatedRank |-> "object", current |-> Num(0)],
      [homeAway |-> "home", name |-> "Las Vegas Raiders", score |-> JsonNull,
       curatedRank |-> "object", current |-> JsonNull] }

StatusNames ==
    {"STATUS_FINAL", "STATUS_IN_PROGRESS", "STATUS_HALFTIME", "STATUS_END_PERIOD",
     "STATUS_POSTPONED", "STATUS_CANCELED", "STATUS_SCHEDULED", "STATUS_DELAYED", ""}

\* a final game of every line-up, the first line-up of two in every status,
\* and an event without a competition
Events ==
    {[has_competition |-> TRUE, competitors |-> l, status_name |-> "STATUS_FINAL"] :
        l \in ListsOf(Competitors, MaxCompetitors)}
    \cup
    {[has_competition |-> TRUE, status_name |-> st,
      competitors |-> << [homeAway |-> "home", name |-> "Kansas City Chiefs",
                          score |-> NumStr(21), curatedRank |-> "object",
                          current |-> Num(5)],
                         [homeAway |-> "away", name |-> "Denver Broncos",
                          score |-> Absent, curatedRank |-> "absent",
                          current |-> Absent] >>] : st \in StatusNames}
    \cup
    {[has_competition |-> FALSE, competitors |-> <<>>, status_name |-> ""]}

\* event ids are those of the upstream: one per event
WithIds(events) ==
    [i \in 1..Len(events) |->
        [id |-> i, has_competition |-> events[i].has_competition,
         competitors |-> events[i].competitors, status_name |-> events[i].status_name]]

Scoreboards ==
    {EmptyResult} \cup
    {[has_events |-> TRUE, events |-> WithIds(events)] :
        events \in UNION {[1..n -> Events] : n \in 0..MaxEvents}}

Entries ==
    { [team |-> "Kansas City Chiefs", rank |-> Num(1), playoffSeed |-> Absent,
       wins |-> Num(9), winPercent |-> Num(1)],
      [team |-> "Denver Broncos", rank |-> Num(0), playoffSeed |-> Num(3),
       wins |-> NumStr(7), winPercent |-> Absent],
      [team |-> "Las Vegas Raiders", rank |-> Absent, playoffSeed |-> Absent,
       wins |-> Junk, winPercent |-> Num(0)],
      [team |-> "Dallas Cowboys", rank |-> JsonNull, playoffSeed |-> Num(0),
       wins |-> Infinity, winPercent |-> JsonNull] }

Group(name, children, entries) ==
    [name |-> name, children |-> children, entries |-> entries]

\* the flat shape, one level of groups, two levels, and both kinds of group
StandingsPayloads ==
    UNION {
        { [children |-> <<>>, entries |-> l],
          [children |-> <<Group("AFC", <<>>, l)>>, entries |-> <<>>],
          [children |-> <<Group("AFC", <<Group("AFC West", <<>>, l)>>, <<>>)>>,
           entries |-> <<>>],
          [children |-> <<Group("AFC", <<Group("AFC West", <<>>, l)>>, <<>>),
                          Group("NFC", <<>>, l)>>,
           entries |-> <<>>] } : l \in ListsOf(Entries, MaxEntries)}

Athletes ==
    { [name |-> "Patrick Mahomes", position |-> "object", abbreviation |-> "QB"],
      [name |-> "Travis Kelce", position |-> "object", abbreviation |-> ""],
      [name |-> "Chris Jones", position |-> "absent", abbreviation |-> ""],
      [name |-> "Harrison Butker", position |-> "null", abbreviation |-> ""] }

RosterPayloads ==
    UNION {
        { [athletes |-> <<>>, roster |-> l],
          [athletes |-> <<[position |-> "Offense", items |-> l]>>, roster |-> <<>>] } :
        l \in ListsOf(Athletes, MaxEntries)}

\* league arguments: keys and codes of the table in several letter cases,
\* names the table does not have, a padded name and the empty name
LeagueNames ==
    {"nfl", "NFL", "National Football League", "NCAAF", "college-football",
     "arena-football", "afl", "unknown-league", "Premier League", " NFL ", ""}

\* metadata values: what the callers of add build from constants and from
\* decoded JSON request bodies
MetadataValues ==
    {PyValue("NoneType", 0), PyValue("str", 1), PyValue("int", 7),
     PyValue("float", 2), PyValue("bool", 1), PyValue("list", 3),
     PyValue("dict", 4)}

MetadataKeys == {"message_id", "tags", "type"}

Documents ==
    UNION {
        { [type |-> PyValue("str", 5), created_at |-> PyValue("str", 6), metadata |-> m] :
          m \in [keys -> MetadataValues] } :
        keys \in SUBSET MetadataKeys}

\* what the upstream does with one request
Upstreams ==
    {[failure |-> f, status_code |-> c, json |-> j,
      body |-> [has_events |-> TRUE, events |-> <<>>]] :
        f \in {NoError, "ConnectError", "ReadTimeout"},
        c \in {200, 204, 301, 404, 500},
        j \in BOOLEAN}

Payloads ==
    {[kind |-> "scoreboard", data |-> d] : d \in Scoreboards}
    \cup {[kind |-> "standings", data |-> d] : d \in StandingsPayloads}
    \cup {[kind |-> "roster", data |-> d] : d \in RosterPayloads}
    \cup {[kind |-> "league", data |-> [league |-> l]] : l \in LeagueNames}
    \cup {[kind |-> "document", data |-> d] : d \in Documents}
    \cup {[kind |-> "upstream", data |-> d] : d \in Upstreams}

TeamFilters == {"", "Chiefs"}
StatusFilters == {"", "live", "finished", "scheduled"}

Called(op, team, status, fetched, out) ==
    [op |-> op, team |-> team, status |-> status, fetched |-> fetched,
     raised |-> out.raised, result |-> out.result]

ParseFootballGames ==
    /\ raw.kind = "scoreboard"
    /\ normalized = NotCalled
    /\ normalized' = Called("parse_football_games", "", "", TRUE,
                            parse_football_games(raw.data))
    /\ UNCHANGED <<hash_seed, registryVars, last_call, agentVars, http_response, raw, worker>>

ParseFootballStandings ==
    /\ raw.kind = "standings"
    /\ normalized = NotCalled
    /\ normalized' = Called("parse_football_standings", "", "", TRUE,
                            parse_football_standings(raw.data))
    /\ UNCHANGED <<hash_seed, registryVars, last_call, agentVars, http_response, raw, worker>>

ParseFootballRoster ==
    /\ raw.kind = "roster"
    /\ normalized = NotCalled
    /\ normalized' = Called("parse_football_roster", "", "", TRUE,
                            parse_football_roster(raw.data))
    /\ UNCHANGED <<hash_seed, registryVars, last_call, agentVars, http_response, raw, worker>>

\* get_matches: the fetch returns the payload, or {} when the upstream fails
\* (a behaviour is one payload and the one call that consumes it)
GetMatches ==
    /\ raw.kind = "scoreboard"
    /\ normalized = NotCalled
    /\ \E team \in TeamFilters, status \in StatusFilters, fetched \in BOOLEAN :
          normalized' = Called("get_matches", team, status, fetched,
                               get_matches(IF fetched THEN raw.data ELSE EmptyResult,
                                           team, status))
    /\ UNCHANGED <<hash_seed, registryVars, last_call, agentVars, http_response, raw, worker>>

NormalizeFootballLeague ==
    /\ raw.kind = "league"
    /\ normalized = NotCalled
    /\ normalized' = Called("_normalize_football_league", "", "", FALSE,
                            Parsed(FALSE, <<_normalize_football_league(raw.data.league)>>))
    /\ UNCHANGED <<hash_seed, registryVars, last_call, agentVars, http_response, raw, worker>>

NormalizeLeague ==
    /\ raw.kind = "league"
    /\ normalized = NotCalled
    /\ normalized' = Called("_normalize_league", "", "", FALSE,
                            Parsed(FALSE, <<_normalize_league(raw.data.league)>>))
    /\ UNCHANGED <<hash_seed, registryVars, last_call, agentVars, http_response, raw, worker>>

\* VectorKnowledgeStore.add: what it hands to collection.add
StoreAdd ==
    /\ raw.kind = "document"
    /\ normalized = NotCalled
    /\ normalized' = Called("add", "", "", FALSE,
                            Parsed(FALSE, <<processed_metadata(raw.data)>>))
    /\ UNCHANGED <<hash_seed, registryVars, last_call, agentVars, http_response, raw, worker>>

SyncRequest ==
    /\ raw.kind = "upstream"
    /\ normalized = NotCalled
    /\ normalized' = Called("_sync_request", "", "", RaisedBy(raw.data) = NoError,
                            _sync_request(raw.data))
    /\ UNCHANGED <<hash_seed, registryVars, last_call, agentVars, http_response, raw, worker>>

InitNormalizer ==
    /\ hash_seed = [n \in LowerNames |-> 0]
    /\ favorite_teams = <<>>
    /\ favorite_players = <<>>
    /\ user_calendar = <<>>
    /\ last_call = NoCall
    /\ use_llm = TRUE
    /\ InitAgentIdle
    /\ http_response = NoHttpResponse
    /\ raw \in Payloads
    /\ normalized = NotCalled
    /\ worker = [s \in Sessions |-> NoWork]

NextNormalizer ==
    \/ ParseFootballGames
    \/ ParseFootballStandings
    \/ ParseFootballRoster
    \/ GetMatches
    \/ NormalizeFootballLeague
    \/ NormalizeLeague
    \/ StoreAdd
    \/ SyncRequest

SpecNormalizer == InitNormalizer /\ [][NextNormalizer]_vars

----------------------------------------------------------------------------
(* Tools the agent reaches besides the registry *)

APPROVAL_REQUIRED_TOOLS == {"save_favorite_team"}

\* found: whether football_service.get_team_stats returned a team
save_favorite_team(favorites, team_name, found) ==
    IF ~found
    THEN [coll |-> favorites,
          text |-> <<"Team", team_name, "not", "found.", "Cannot", "add", "to", "favorites.">>,
          markers |-> <<>>]
    ELSE IF \E fav \in favorites : NameWithin(team_name, fav)
    THEN [coll |-> favorites,
          text |-> <<StandingTeam(team_name), "is", "already", "in", "your", "favorites!">>,
          markers |-> <<>>]
    ELSE [coll |-> favorites \cup {StandingTeam(team_name)},
          text |-> <<StandingTeam(team_name), "has", "been", "added", "to", "your", "favorites!">>,
          markers |-> <<>>]

navigate_to_page(page) ==
    LET route == CASE page = "news" -> "/news"
                   [] page = "odds" -> "/odds"
                   [] OTHER -> "/"
    IN  [text |-> <<"Navigating", "to", page>>,
         markers |-> << [type |-> "NAVIGATE", route |-> route, page |-> page] >>]

\* tool.invoke(args) on the process-wide stores st = [teams, favorites]
InvokeTool(call, st, found) ==
    CASE call.name = "save_favorite_team" ->
            LET out == save_favorite_team(st.favorites, call.args[1], found) IN
            [teams |-> st.teams, favorites |-> out.coll,
             text |-> out.text, markers |-> out.markers]
      [] call.name = "confirm_add_favorite_team" ->
            LET out == confirm_add_favorite_team(st.teams, call.args[1], "NFL") IN
            [teams |-> out.coll, favorites |-> st.favorites,
             text |-> out.text, markers |-> out.markers]
      [] call.name = "add_team_to_favorites" ->
            LET out == add_team_to_favorites(st.teams, call.args[1], "NFL") IN
            [teams |-> out.coll, favorites |-> st.favorites,
             text |-> out.text, markers |-> out.markers]
      [] OTHER ->
            LET out == navigate_to_page(call.args[1]) IN
            [teams |-> st.teams, favorites |-> st.favorites,
             text |-> out.text, markers |-> out.markers]

----------------------------------------------------------------------------
(* Messages and the graph's routing *)

HumanMessage ==
    [type |-> "human", content |-> <<>>, tool_calls |-> <<>>, name |-> "", tool_call_id |-> 0]
AIMessage(content, tool_calls) ==
    [type |-> "ai", content |-> content, tool_calls |-> tool_calls, name |-> "", tool_call_id |-> 0]
ToolMessage(content, tool_call_id, name) ==
    [type |-> "tool", content |-> content, tool_calls |-> <<>>, name |-> name,
     tool_call_id |-> tool_call_id]

Last(seq) == seq[Len(seq)]

\* slip: every tool call goes to the tool node, gated or not
_should_continue_ungated(msgs) ==
    IF Last(msgs).tool_calls # <<>> THEN "tools" ELSE "end"

_should_continue(msgs) ==
    LET last_message == Last(msgs) IN
    IF last_message.tool_calls # <<>>
    THEN IF \E i \in 1..Len(last_message.tool_calls) :
                last_message.tool_calls[i].name \in APPROVAL_REQUIRED_TOOLS
         THEN "check_approval"
         ELSE "tools"
    ELSE "end"

\* slip: the gate scans the whole thread and takes its first gated call
_check_approval_stale(msgs, current) ==
    LET Gated(m) == {i \in 1..Len(msgs[m].tool_calls) :
                        msgs[m].tool_calls[i].name \in APPROVAL_REQUIRED_TOOLS}
        holders == {m \in 1..Len(msgs) : Gated(m) # {}}
    IN  IF holders # {}
        THEN LET call == msgs[FirstOf(holders)].tool_calls[FirstOf(Gated(FirstOf(holders)))]
             IN  [tool_name |-> call.name, tool_args |-> call.args,
                  tool_call_id |-> call.id]
        ELSE current

\* the update _check_approval returns for the channel pending_approval
_check_approval(msgs, current) ==
    LET calls == Last(msgs).tool_calls
        gated == {i \in 1..Len(calls) : calls[i].name \in APPROVAL_REQUIRED_TOOLS}
    IN  IF gated # {}
        THEN [tool_name |-> calls[FirstOf(gated)].name,
              tool_args |-> calls[FirstOf(gated)].args,
              tool_call_id |-> calls[FirstOf(gated)].id]
        ELSE current

\* ToolNode: the calls of the last AI message, in the order emitted
RECURSIVE RunTools(_, _, _, _)
RunTools(calls, st, found, outs) ==
    IF calls = <<>>
    THEN [teams |-> st.teams, favorites |-> st.favorites, outs |-> outs]
    ELSE LET r == InvokeTool(Head(calls), st, found) IN
         RunTools(Tail(calls), [teams |-> r.teams, favorites |-> r.favorites], found,
                  Append(outs, [name |-> Head(calls).name, id |-> Head(calls).id,
                                markers |-> r.markers]))

\* re.findall(action_pattern, content) of every tool result, appended to
\* response_text unless already in it
RECURSIVE AppendMarkers(_, _)
AppendMarkers(response_text, found_markers) ==
    IF found_markers = <<>>
    THEN response_text
    ELSE LET action == Head(found_markers) IN
         AppendMarkers(IF \E i \in 1..Len(response_text) : response_text[i] = action
                       THEN response_text
                       ELSE Append(response_text, action),
                       Tail(found_markers))

\* tool_results: the content of every ToolMessage of result["messages"]
ToolResults(msgs) ==
    LET IsTool(m) == m.type = "tool" IN
    LET tms == SelectSeq(msgs, IsTool) IN
    [i \in 1..Len(tms) |-> tms[i].content]

\* last_ai_message.content
LastAIContent(msgs) ==
    LET ais == {i \in 1..Len(msgs) : msgs[i].type = "ai"} IN
    IF ais = {} THEN <<>>
    ELSE msgs[CHOOSE i \in ais : \A j \in ais : j <= i].content

----------------------------------------------------------------------------
(* The orchestrator: process_message, the graph's nodes, approve_action *)

\* what the LLM may ask for in one tool call
ToolChoices ==
    { [name |-> "save_favorite_team", args |-> <<"Chiefs">>],
      [name |-> "navigate_to_page", args |-> <<"news">>],
      [name |-> "confirm_add_favorite_team", args |-> <<"Chiefs">>] }

Nodes == {"retrieve_knowledge", "agent", "tools", "check_approval",
          "generate_client_actions"}

\* markers the LLM has read in the session's tool messages
SeenMarkers(msgs) ==
    UNION {{msgs[i].content[k] : k \in 1..Len(msgs[i].content)} :
              i \in {j \in 1..Len(msgs) : msgs[j].type = "tool"}}

ChatResponse(outcome, text, pending) ==
    [kind |-> "chat", outcome |-> outcome, response |-> text,
     approved |-> FALSE, pending_approval |-> pending]
ApproveResponse(outcome, text, approved) ==
    [kind |-> "approve", outcome |-> outcome, response |-> text,
     approved |-> approved, pending_approval |-> None]

\* an exception inside the running request: _process_with_llm turns it into
\* the error reply, approve_action lets it escape to the server
Failed(s) ==
    IF req[s].kind = "chat"
    THEN ChatResponse("error", <<>>, None)
    ELSE ApproveResponse("raised", <<>>, FALSE)

\* slip: the input's pending_approval is written to every thread
ProcessMessage_all_threads(s) ==
    /\ pc[s] = "idle"
    /\ requests < MaxRequests
    /\ use_llm
    /\ requests' = requests + 1
    /\ messages' = [messages EXCEPT ![s] = Append(@, HumanMessage)]
    /\ pending_approval' = [t \in Sessions |-> None]
    /\ pc' = [pc EXCEPT ![s] = "retrieve_knowledge"]
    /\ req' = [req EXCEPT ![s] = [kind |-> "chat", markers |-> <<>>]]
    /\ step' = [step EXCEPT ![s] = 0]
    /\ executed' = [executed EXCEPT ![s] = <<>>]
    /\ UNCHANGED <<serviceVars, hash_seed, registryVars, last_call, use_llm, vs_favorites,
                   response, next_call_id>>

\* process_message with use_llm: the input is written to the thread's
\* channels and the graph starts at its entry point
ProcessMessage(s) ==
    /\ pc[s] = "idle"
    /\ requests < MaxRequests
    /\ use_llm
    /\ requests' = requests + 1
    /\ messages' = [messages EXCEPT ![s] = Append(@, HumanMessage)]
    /\ pending_approval' = [pending_approval EXCEPT ![s] = None]
    /\ pc' = [pc EXCEPT ![s] = "retrieve_knowledge"]
    /\ req' = [req EXCEPT ![s] = [kind |-> "chat", markers |-> <<>>]]
    /\ step' = [step EXCEPT ![s] = 0]
    /\ executed' = [executed EXCEPT ![s] = <<>>]
    /\ UNCHANGED <<serviceVars, hash_seed, registryVars, last_call, use_llm, vs_favorites,
                   response, next_call_id>>

\* str(e) of the exception that leaves process_message: the server answers
\* HTTP 500 with it as the detail
StoreFailure == <<"knowledge", "store", "failure">>
NoFallback == <<"'FootballAgentGraph'", "object", "has", "no", "attribute",
                "'_process_fallback'">>

\* vector_store.add_search_history raises: the call is made before any try
ProcessMessageRaises(s) ==
    /\ pc[s] = "idle"
    /\ requests < MaxRequests
    /\ requests' = requests + 1
    /\ response' = [response EXCEPT ![s] = ChatResponse("raised", StoreFailure, None)]
    /\ executed' = [executed EXCEPT ![s] = <<>>]
    /\ UNCHANGED <<serviceVars, hash_seed, registryVars, last_call, use_llm, vs_favorites,
                   messages, pending_approval, pc, req, step, next_call_id>>

\* process_message without an LLM: the query is stored, then
\* self._process_fallback is looked up, which the class does not define
ProcessMessageFallback(s) ==
    /\ pc[s] = "idle"
    /\ requests < MaxRequests
    /\ ~use_llm
    /\ requests' = requests + 1
    /\ response' = [response EXCEPT ![s] = ChatResponse("raised", NoFallback, None)]
    /\ executed' = [executed EXCEPT ![s] = <<>>]
    /\ UNCHANGED <<serviceVars, hash_seed, registryVars, last_call, use_llm, vs_favorites,
                   messages, pending_approval, pc, req, step, next_call_id>>

RetrieveKnowledge(s) ==
    /\ pc[s] = "retrieve_knowledge"
    /\ step[s] < RecursionLimit
    /\ step' = [step EXCEPT ![s] = @ + 1]
    /\ pc' = [pc EXCEPT ![s] = "agent"]
    /\ UNCHANGED <<serviceVars, hash_seed, registryVars, last_call, use_llm, vs_favorites,
                   messages, pending_approval, req, executed, response,
                   next_call_id, requests>>

\* _agent_node and the conditional edge that follows it
AgentNode(s) ==
    /\ pc[s] = "agent"
    /\ step[s] < RecursionLimit
    /\ \E n \in 0..MaxToolCalls :
       \E picks \in [1..n -> ToolChoices] :
       \E content \in {<<>>} \cup {<<m>> : m \in SeenMarkers(messages[s])} :
          LET tool_calls == [i \in 1..n |->
                                [name |-> picks[i].name, args |-> picks[i].args,
                                 id |-> next_call_id + i]]
              msgs == Append(messages[s], AIMessage(content, tool_calls))
              route == _should_continue(msgs)
          IN  /\ next_call_id + n <= MaxCallIds
              /\ next_call_id' = next_call_id + n
              /\ messages' = [messages EXCEPT ![s] = msgs]
              /\ pc' = [pc EXCEPT ![s] =
                            IF route = "end" THEN "generate_client_actions" ELSE route]
    /\ step' = [step EXCEPT ![s] = @ + 1]
    /\ UNCHANGED <<serviceVars, hash_seed, registryVars, last_call, use_llm, vs_favorites,
                   pending_approval, req, executed, response, requests>>

ToolsNode(s) ==
    /\ pc[s] = "tools"
    /\ step[s] < RecursionLimit
    /\ \E found \in BOOLEAN :
          LET r == RunTools(Last(messages[s]).tool_calls,
                            [teams |-> favorite_teams, favorites |-> vs_favorites],
                            found, <<>>)
          IN  /\ favorite_teams' = r.teams
              /\ vs_favorites' = r.favorites
              /\ messages' = [messages EXCEPT ![s] =
                     @ \o [i \in 1..Len(r.outs) |->
                             ToolMessage(r.outs[i].markers, r.outs[i].id, r.outs[i].name)]]
              /\ executed' = [executed EXCEPT ![s] =
                     @ \o [i \in 1..Len(r.outs) |->
                             [name |-> r.outs[i].name, id |-> r.outs[i].id,
                              markers |-> r.outs[i].markers, via |-> "tools",
                              supplied_id |-> 0, approved |-> FALSE]]]
    /\ step' = [step EXCEPT ![s] = @ + 1]
    /\ pc' = [pc EXCEPT ![s] = "agent"]
    /\ UNCHANGED <<serviceVars, hash_seed, favorite_players, user_calendar, last_call, use_llm,
                   pending_approval, req, response, next_call_id, requests>>

CheckApproval(s) ==
    /\ pc[s] = "check_approval"
    /\ step[s] < RecursionLimit
    /\ pending_approval' = [pending_approval EXCEPT ![s] =
                                _check_approval(messages[s], @)]
    /\ step' = [step EXCEPT ![s] = @ + 1]
    /\ pc' = [pc EXCEPT ![s] = "agent"]
    /\ UNCHANGED <<serviceVars, hash_seed, registryVars, last_call, use_llm, vs_favorites,
                   messages, req, executed, response, next_call_id, requests>>

GenerateClientActions(s) ==
    /\ pc[s] = "generate_client_actions"
    /\ step[s] < RecursionLimit
    /\ step' = [step EXCEPT ![s] = @ + 1]
    /\ pc' = [pc EXCEPT ![s] = "respond"]
    /\ UNCHANGED <<serviceVars, hash_seed, registryVars, last_call, use_llm, vs_favorites,
                   messages, pending_approval, req, executed, response,
                   next_call_id, requests>>

\* the code after ainvoke returns: _process_with_llm scans every ToolMessage
\* of the thread, approve_action only the result of the approved tool
Respond(s) ==
    /\ pc[s] = "respond"
    /\ response' = [response EXCEPT ![s] =
          IF req[s].kind = "chat"
          THEN ChatResponse("ok",
                   AppendMarkers(LastAIContent(messages[s]),
                                 Flatten(ToolResults(messages[s]))),
                   pending_approval[s])
          ELSE ApproveResponse("ok",
                   AppendMarkers(Last(messages[s]).content, req[s].markers),
                   TRUE)]
    /\ pc' = [pc EXCEPT ![s] = "idle"]
    /\ UNCHANGED <<serviceVars, hash_seed, registryVars, last_call, use_llm, vs_favorites,
                   messages, pending_approval, req, step, executed,
                   next_call_id, requests>>

\* the LLM provider or the knowledge store raises
NodeRaises(s) ==
    /\ pc[s] \in {"retrieve_knowledge", "agent"}
    /\ response' = [response EXCEPT ![s] = Failed(s)]
    /\ pc' = [pc EXCEPT ![s] = "idle"]
    /\ UNCHANGED <<serviceVars, hash_seed, registryVars, last_call, use_llm, vs_favorites,
                   messages, pending_approval, req, step, executed,
                   next_call_id, requests>>

\* the graph without a step budget: it stays where it is
RecursionLimitReached_unbounded(s) ==
    /\ pc[s] \in Nodes
    /\ step[s] >= RecursionLimit
    /\ UNCHANGED vars

\* GraphRecursionError: the step budget is used up before the graph ends
RecursionLimitReached(s) ==
    /\ pc[s] \in Nodes
    /\ step[s] >= RecursionLimit
    /\ response' = [response EXCEPT ![s] = Failed(s)]
    /\ pc' = [pc EXCEPT ![s] = "idle"]
    /\ UNCHANGED <<serviceVars, hash_seed, registryVars, last_call, use_llm, vs_favorites,
                   messages, pending_approval, req, step, executed,
                   next_call_id, requests>>

\* approve_action up to its ainvoke: the pending tool is run when approved
\* is true and the thread has a pending action
ApproveExecutes(s) ==
    /\ pc[s] = "idle"
    /\ requests < MaxRequests
    /\ use_llm
    /\ pending_approval[s] # None
    /\ \E tool_call_id \in 0..MaxCallIds, found \in BOOLEAN :
          LET pending == pending_approval[s]
              r == InvokeTool([name |-> pending.tool_name, args |-> pending.tool_args],
                              [teams |-> favorite_teams, favorites |-> vs_favorites],
                              found)
          IN  /\ favorite_teams' = r.teams
              /\ vs_favorites' = r.favorites
              /\ messages' = [messages EXCEPT ![s] =
                     Append(@, ToolMessage(r.markers, pending.tool_call_id,
                                           pending.tool_name))]
              /\ req' = [req EXCEPT ![s] = [kind |-> "approve", markers |-> r.markers]]
              /\ executed' = [executed EXCEPT ![s] =
                     << [name |-> pending.tool_name, id |-> pending.tool_call_id,
                         markers |-> r.markers, via |-> "approve",
                         supplied_id |-> tool_call_id, approved |-> TRUE] >>]
    /\ requests' = requests + 1
    /\ pending_approval' = [pending_approval EXCEPT ![s] = None]
    /\ pc' = [pc EXCEPT ![s] = "retrieve_knowledge"]
    /\ step' = [step EXCEPT ![s] = 0]
    /\ UNCHANGED <<serviceVars, hash_seed, favorite_players, user_calendar, last_call, use_llm,
                   response, next_call_id>>

\* approve_action returning at once: no LLM, approved false, or nothing pending
ApproveRejects(s) ==
    /\ pc[s] = "idle"
    /\ requests < MaxRequests
    /\ \E approved \in BOOLEAN :
          ~(use_llm /\ approved /\ pending_approval[s] # None)
    /\ requests' = requests + 1
    /\ response' = [response EXCEPT ![s] = ApproveResponse("ok", <<>>, FALSE)]
    /\ executed' = [executed EXCEPT ![s] = <<>>]
    /\ UNCHANGED <<serviceVars, hash_seed, registryVars, last_call, use_llm, vs_favorites,
                   messages, pending_approval, pc, req, step, next_call_id>>

InitAgent ==
    /\ hash_seed = [n \in LowerNames |-> 0]
    /\ favorite_teams = <<>>
    /\ favorite_players = <<>>
    /\ user_calendar = <<>>
    /\ last_call = NoCall
    /\ use_llm \in BOOLEAN
    /\ InitAgentIdle
    /\ InitServiceIdle

NextAgent ==
    \E s \in Sessions :
        \/ ProcessMessage(s)
        \/ ProcessMessageRaises(s)
        \/ ProcessMessageFallback(s)
        \/ RetrieveKnowledge(s)
        \/ AgentNode(s)
        \/ ToolsNode(s)
        \/ CheckApproval(s)
        \/ GenerateClientActions(s)
        \/ Respond(s)
        \/ NodeRaises(s)
        \/ RecursionLimitReached(s)
        \/ ApproveExecutes(s)
        \/ ApproveRejects(s)

SpecAgent == InitAgent /\ [][NextAgent]_vars

\* what the event loop does with a request it has accepted: the awaited graph
\* invocation runs its next superstep, raises GraphRecursionError or returns
GraphStep(s) ==
    \/ RetrieveKnowledge(s)
    \/ AgentNode(s)
    \/ ToolsNode(s)
    \/ CheckApproval(s)
    \/ GenerateClientActions(s)
    \/ Respond(s)
    \/ RecursionLimitReached(s)

\* the requests the loop has accepted keep running; whether a request
\* arrives and whether a provider fails is up to the environment
SpecAgentFair == SpecAgent /\ \A s \in Sessions : WF_vars(GraphStep(s))

----------------------------------------------------------------------------
(* Properties of the registry *)

ProposeOps == {"add_team_to_favorites", "remove_team_from_favorites",
               "add_player_to_favorites", "remove_player_from_favorites",
               "add_match_to_calendar", "remove_match_from_calendar"}
ConfirmOps == {"confirm_add_favorite_team", "confirm_remove_favorite_team",
               "confirm_add_favorite_player", "confirm_remove_favorite_player",
               "confirm_add_to_calendar", "confirm_remove_from_calendar"}
RemoveOps == {"remove_team_from_favorites", "confirm_remove_favorite_team",
              "remove_player_from_favorites", "confirm_remove_favorite_player",
              "remove_match_from_calendar", "confirm_remove_from_calendar"}

\* C1: a propose operation, in any state and with any arguments, leaves the
\* three collections as they were; a collection changes only in a confirm
\* operation.
C1_ProposeIsReadOnly ==
    [][ /\ last_call'.op \in ProposeOps => registryVars' = registryVars
        /\ registryVars' # registryVars => last_call'.op \in ConfirmOps ]_vars

\* a proposal artifact was rendered while the calendar held an entry
C1_Witness ==
    /\ last_call.op = "add_match_to_calendar"
    /\ last_call.markers # <<>>
    /\ Len(user_calendar) = 1
    /\ Len(favorite_teams) = 1

UniqueBy(coll, Key(_)) ==
    \A i, j \in 1..Len(coll) : Key(coll[i]) = Key(coll[j]) => i = j

TeamKey(e) == Lower(e.name)
PlayerKey(e) == Lower(e.name)
MatchKey(e) == <<Lower(e.home_team), Lower(e.away_team)>>

\* C2: after any sequence of propose and confirm operations no collection
\* holds two entries whose natural keys are equal ignoring letter case.
C2_NaturalKeysUnique ==
    /\ UniqueBy(favorite_teams, TeamKey)
    /\ UniqueBy(favorite_players, PlayerKey)
    /\ UniqueBy(user_calendar, MatchKey)

\* a confirm-add met an entry stored under another spelling of its key
C2_Witness ==
    /\ last_call.op = "confirm_add_favorite_team"
    /\ last_call.present
    /\ \E i \in 1..Len(favorite_teams) :
          /\ favorite_teams[i].name # last_call.key[1]
          /\ Lower(favorite_teams[i].name) = Lower(last_call.key[1])

\* the step of a confirm-add: one entry more when the key was absent,
\* nothing changed and "already" reported when it was present
AddsOnce(coll, collNext, present, MatchesKey(_)) ==
    IF present
    THEN /\ collNext = coll
         /\ HasPhrase(last_call'.text, <<"already">>)
    ELSE /\ Len(collNext) = Len(coll) + 1
         /\ SubSeq(collNext, 1, Len(coll)) = coll
         /\ MatchesKey(collNext[Len(collNext)])

\* C3: confirming an add for an absent natural key adds exactly one entry;
\* confirming it again, in any letter case, adds nothing, leaves the stored
\* entry as it was and returns a message containing "already".
C3_ConfirmAddOnce ==
    [][ /\ last_call'.op = "confirm_add_favorite_team" =>
              LET IsKey(e) == TeamKey(e) = Lower(last_call'.key[1]) IN
              AddsOnce(favorite_teams, favorite_teams',
                       TeamIndex(favorite_teams, last_call'.key[1]) # {}, IsKey)
        /\ last_call'.op = "confirm_add_favorite_player" =>
              LET IsKey(e) == PlayerKey(e) = Lower(last_call'.key[1]) IN
              AddsOnce(favorite_players, favorite_players',
                       PlayerIndex(favorite_players, last_call'.key[1]) # {}, IsKey)
        /\ last_call'.op = "confirm_add_to_calendar" =>
              LET IsKey(e) == MatchKey(e) = <<Lower(last_call'.key[1]), Lower(last_call'.key[2])>> IN
              AddsOnce(user_calendar, user_calendar',
                       CalendarIndex(user_calendar, last_call'.key[1], last_call'.key[2]) # {},
                       IsKey) ]_vars

\* the second confirm of a player, spelled differently from the stored entry
C3_Witness ==
    /\ last_call.op = "confirm_add_favorite_player"
    /\ last_call.present
    /\ HasPhrase(last_call.text, <<"already">>)
    /\ Len(favorite_players) = 1
    /\ favorite_players[1].name # last_call.key[1]

\* C4: for an entity that is not in its collection, the remove proposal and
\* the remove confirmation leave the collection unchanged and both return a
\* message reporting "not found".
C4_RemoveAbsentNotFound ==
    [][ (last_call'.op \in RemoveOps /\ ~last_call'.present) =>
            /\ registryVars' = registryVars
            /\ HasPhrase(last_call'.text, <<"not", "found">>) ]_vars

FavoriteOps == {"add_team_to_favorites", "confirm_add_favorite_team",
                "remove_team_from_favorites", "confirm_remove_favorite_team",
                "add_player_to_favorites", "confirm_add_favorite_player",
                "remove_player_from_favorites", "confirm_remove_favorite_player"}

\* C11: for favorite teams and players, the id of the proposal artifact for
\* a name, the id stored by a later confirm of that name in any letter case
\* and the id shown by a later remove proposal are one and the same value,
\* the process's hash of the lower-cased name, whatever was done to other
\* names in between.
C11_IdFollowsName ==
    /\ \A i \in 1..Len(favorite_teams) :
          favorite_teams[i].id = HashId(favorite_teams[i].name)
    /\ \A i \in 1..Len(favorite_players) :
          favorite_players[i].id = HashId(favorite_players[i].name)
    /\ (last_call.op \in FavoriteOps /\ last_call.markers # <<>>) =>
          last_call.markers[1].id = HashId(last_call.key[1])

\* a remove proposal for a team stored under another spelling, with another
\* team stored before it
C11_Witness ==
    /\ last_call.op = "remove_team_from_favorites"
    /\ last_call.present
    /\ Len(favorite_teams) = 2
    /\ favorite_teams[2].name # last_call.key[1]
    /\ Lower(favorite_teams[2].name) = Lower(last_call.key[1])
    /\ last_call.markers[1].id = favorite_teams[2].id
    /\ favorite_teams[1].id # favorite_teams[2].id

HasMatch(calendar, key) == CalendarIndex(calendar, key[1], key[2]) # {}

\* C12: the calendar endpoints perform the mutation they report: after
\* POST /api/calendar for a pair not yet in the calendar, the calendar in the
\* response and the one GET /api/calendar reads hold an entry for the pair;
\* after DELETE /api/calendar for a pair that is present, neither holds it.
C12_CalendarEndpointsMutate ==
    [][ http_response' # http_response =>
          /\ (http_response'.endpoint = "POST /api/calendar" /\ ~http_response'.present) =>
                /\ HasMatch(http_response'.matches, http_response'.key)
                /\ HasMatch(get_user_calendar(user_calendar'), http_response'.key)
          /\ (http_response'.endpoint = "DELETE /api/calendar" /\ http_response'.present) =>
                /\ ~HasMatch(http_response'.matches, http_response'.key)
                /\ ~HasMatch(get_user_calendar(user_calendar'), http_response'.key) ]_vars

\* C13: calendar ids are an increasing sequence assigned at confirm time:
\* a confirmed add gives the new entry an id greater than that of every
\* entry added before it, so no two entries of the calendar share an id.
C13_CalendarIdsIncrease ==
    \A i, j \in 1..Len(user_calendar) :
        i < j => user_calendar[i].id < user_calendar[j].id

----------------------------------------------------------------------------
(* Properties of the orchestrator *)

GatedCalls(calls) ==
    {i \in 1..Len(calls) : calls[i].name \in APPROVAL_REQUIRED_TOOLS}

AsPending(call) ==
    [tool_name |-> call.name, tool_args |-> call.args, tool_call_id |-> call.id]

\* the step of session s is the reasoning node
AgentStep(s) == pc[s] = "agent" /\ step'[s] = step[s] + 1

\* the step of session s is the approval gate
GateStep(s) == pc[s] = "check_approval" /\ pc'[s] = "agent"

\* C5: approve_action executes the pending tool only when approved is true
\* and the supplied tool_call_id is that of the session's pending action;
\* otherwise nothing is executed, no collection or store changes and the
\* result has approved = false.
C5_ApprovalTiedToToolCallId ==
    [][ \A s \in Sessions :
          /\ \A i \in 1..Len(executed'[s]) :
                executed'[s][i].via = "approve" =>
                    /\ executed'[s][i].approved
                    /\ executed'[s][i].supplied_id = executed'[s][i].id
          /\ (response'[s] # response[s] /\ response'[s].kind = "approve"
                /\ ~response'[s].approved) =>
                    /\ registryVars' = registryVars
                    /\ vs_favorites' = vs_favorites
                    /\ pending_approval' = pending_approval ]_vars

\* C6: an LLM response carrying a gated tool call routes to the approval
\* gate and not to the tool node; the gate stores one pending action taken
\* from that response; a gated tool is never run by the tool node of a
\* turn, only by approve_action.
C6_GatedCallGoesToGate ==
    [][ \A s \in Sessions :
          /\ (AgentStep(s) /\ GatedCalls(Last(messages'[s]).tool_calls) # {}) =>
                    pc'[s] = "check_approval"
          /\ GateStep(s) =>
                /\ \E i \in GatedCalls(Last(messages[s]).tool_calls) :
                      pending_approval'[s] = AsPending(Last(messages[s]).tool_calls[i])
                /\ executed'[s] = executed[s]
                /\ registryVars' = registryVars
                /\ vs_favorites' = vs_favorites
          /\ \A i \in 1..Len(executed'[s]) :
                executed'[s][i].name \in APPROVAL_REQUIRED_TOOLS =>
                    executed'[s][i].via = "approve" ]_vars

\* a chat turn has passed the gate: the gated call is pending and was not run
C6_Witness ==
    \E s \in Sessions :
        /\ req[s].kind = "chat"
        /\ pc[s] = "agent"
        /\ GatedCalls(Last(messages[s]).tool_calls) # {}
        /\ pending_approval[s] # None
        /\ executed[s] = <<>>
        /\ vs_favorites = {}

\* C7: a session holds at most one pending action, and of several gated
\* proposals (in successive visits to the gate or within one LLM response)
\* the one kept is the last one proposed.
C7_LastProposalWins ==
    [][ \A s \in Sessions :
          GateStep(s) =>
              LET calls == Last(messages[s]).tool_calls
                  last == CHOOSE i \in GatedCalls(calls) :
                              \A j \in GatedCalls(calls) : j <= i
              IN  pending_approval'[s] = AsPending(calls[last]) ]_vars

\* C8: a session's pending action stays until it is approved or replaced by
\* a new proposal; a chat turn that proposes nothing does not clear it.
C8_PendingSurvivesChatTurns ==
    [][ \A s \in Sessions :
          (pending_approval[s] # None /\ pending_approval'[s] # pending_approval[s]) =>
              \/ GateStep(s)
              \/ pc[s] = "idle" /\ req'[s].kind = "approve" /\ pc'[s] # "idle" ]_vars

\* markers of the tool outputs produced by the request in flight
TurnMarkers(s) ==
    UNION {{executed[s][i].markers[k] : k \in 1..Len(executed[s][i].markers)} :
              i \in 1..Len(executed[s])}

InSeq(x, seq) == \E i \in 1..Len(seq) : seq[i] = x

\* the markers appended to the LLM's reply in the response of session s
Appended(s) ==
    SubSeq(response[s].response, Len(LastAIContent(messages[s])) + 1,
           Len(response[s].response))

Returned_ok(s, kinds) ==
    pc[s] = "idle" /\ response[s].kind \in kinds /\ response[s].outcome = "ok"

\* C9: the markers appended to a turn's response come only from tool
\* outputs of that turn, never from a tool output of an earlier turn.
C9_AppendedMarkersAreThisTurns ==
    \A s \in Sessions :
        Returned_ok(s, {"chat"}) =>
            \A k \in 1..Len(Appended(s)) : Appended(s)[k] \in TurnMarkers(s)

\* C10: every marker of a tool output of the turn is in the final response
\* text; a marker the reply already has is not appended again; appended
\* markers keep the order of the tool outputs.
C10_TurnMarkersReachResponse ==
    \A s \in Sessions :
        Returned_ok(s, {"chat", "approve"}) =>
            /\ \A m \in TurnMarkers(s) : InSeq(m, response[s].response)
            /\ \A i, j \in 1..Len(response[s].response) :
                  response[s].response[i] = response[s].response[j] => i = j
            /\ \A a, b \in 1..Len(executed[s]) :
               \A i, j \in 1..Len(Appended(s)) :
                  ( /\ a < b
                    /\ InSeq(Appended(s)[i], executed[s][a].markers)
                    /\ ~InSeq(Appended(s)[i], executed[s][b].markers)
                    /\ InSeq(Appended(s)[j], executed[s][b].markers)
                    /\ ~InSeq(Appended(s)[j], executed[s][a].markers) ) => i < j

\* C14: with no LLM configured, process_message completes through the
\* fallback path and returns a result with a response, instead of raising.
C14_FallbackReturnsResponse ==
    \A s \in Sessions :
        (~use_llm /\ response[s].kind = "chat" /\ response[s].response # StoreFailure) =>
            response[s].outcome = "ok"

\* C15: no failure inside a chat turn reaches the caller as an exception or
\* an HTTP error status; a provider or knowledge-store failure at any step
\* of process_message becomes a chat-style response with success status.
C15_NoFailureEscapesChatTurn ==
    \A s \in Sessions :
        (use_llm /\ response[s].kind = "chat") =>
            response[s].outcome \in {"ok", "error"}

----------------------------------------------------------------------------
(* Properties of the normalizers and the domain service *)

Parsers == {"parse_football_games", "parse_football_standings", "parse_football_roster"}

\* C16: the football normalizers never raise: for every raw payload, with
\* fields missing, null or not parseable as numbers, they return a
\* normalized structure.
C16_NormalizersNeverRaise ==
    normalized.op \in Parsers => ~normalized.raised

\* the event a game was made from, and the competitors taken as its sides
EventOf(game) == raw.data.events[game.id]
HomeOf(game) == EventOf(game).competitors[Sides(EventOf(game).competitors).home]
AwayOf(game) == EventOf(game).competitors[Sides(EventOf(game).competitors).away]

ScoreClaimed(score) ==
    CASE score.t \in {"absent", "null"} -> JsonNull
      [] score.t \in {"number", "numeric_string"} -> Num(score.v)
      [] OTHER -> Num(0)

\* C17: in a normalized game a side's score is null when the competitor
\* carries no score (missing or null), 0 only when a non-null score fails
\* numeric parsing, and the integer value when the score is numeric.
C17_ScoreNullWhenAbsent ==
    normalized.op = "parse_football_games" =>
        \A k \in 1..Len(normalized.result) :
            LET game == normalized.result[k] IN
            /\ game.home_team.score = ScoreClaimed(HomeOf(game).score)
            /\ game.away_team.score = ScoreClaimed(AwayOf(game).score)

\* the upstream rank of a competitor
CurrentOf(c) == IF c.curatedRank = "absent" THEN Absent ELSE c.current

RankClaimed(rank, given) ==
    CASE rank.t = "absent" \/ rank = Num(0) -> given = JsonNull
      [] rank.t = "number" -> given = rank
      [] OTHER -> TRUE

\* C18: a rank of 0 is "no rank" and is surfaced as null: a standing whose
\* rank stat is 0 or absent, with no playoffSeed, has rank null; a game side
\* whose curated rank is 0 or absent has rank null; a positive rank is kept.
C18_RankZeroIsNull ==
    /\ normalized.op = "parse_football_standings" =>
          \A k \in 1..Len(normalized.result) : \A e \in Entries :
              (e.team = normalized.result[k].team /\ e.playoffSeed = Absent) =>
                  RankClaimed(e.rank, normalized.result[k].rank)
    /\ normalized.op = "parse_football_games" =>
          \A k \in 1..Len(normalized.result) :
              LET game == normalized.result[k] IN
              /\ RankClaimed(CurrentOf(HomeOf(game)), game.home_team.rank)
              /\ RankClaimed(CurrentOf(AwayOf(game)), game.away_team.rank)

Ids(seq) == [k \in 1..Len(seq) |-> seq[k].id]

\* C19: parse_football_games returns exactly one game, in input order, for
\* each event whose first competition lists two or more competitors; an
\* event with fewer than 2 competitors or without a competition is absent.
C19_OneGamePerTwoSidedEvent ==
    normalized.op = "parse_football_games" =>
        LET TwoSided(event) == event.has_competition /\ Len(event.competitors) >= 2 IN
        /\ ~normalized.raised
        /\ Ids(normalized.result) = Ids(SelectSeq(raw.data.events, TwoSided))

StatusClaimed(status_name) ==
    CASE status_name = "STATUS_FINAL" -> "final"
      [] status_name = "STATUS_IN_PROGRESS" -> "in_progress"
      [] status_name = "STATUS_HALFTIME" -> "in_progress"
      [] status_name = "STATUS_END_PERIOD" -> "in_progress"
      [] status_name = "STATUS_POSTPONED" -> "postponed"
      [] status_name = "STATUS_CANCELED" -> "canceled"
      [] OTHER -> "scheduled"

StatusWanted(status) ==
    CASE status = "finished" -> "final"
      [] status = "live" -> "in_progress"
      [] OTHER -> "scheduled"

\* C20: every upstream status name maps to its one normalized status (FINAL
\* to final; IN_PROGRESS, HALFTIME, END_PERIOD to in_progress; POSTPONED to
\* postponed; CANCELED to canceled; anything else to scheduled), and
\* get_matches with the status filter finished, live or scheduled returns
\* exactly the normalized games that pass the team filter and whose status
\* is final, in_progress or scheduled respectively.
C20_StatusTableAndFilter ==
    /\ normalized.op = "parse_football_games" =>
          \A k \in 1..Len(normalized.result) :
              normalized.result[k].status =
                  StatusClaimed(EventOf(normalized.result[k]).status_name)
    /\ (normalized.op = "get_matches"
          /\ normalized.status \in {"finished", "live", "scheduled"}) =>
          LET games == IF normalized.fetched
                       THEN parse_football_games(raw.data).result ELSE <<>>
              Passes(g) ==
                  /\ g.status = StatusWanted(normalized.status)
                  /\ normalized.team # "" =>
                        \/ NameWithin(normalized.team, g.home_team.name)
                        \/ NameWithin(normalized.team, g.away_team.name)
          IN  Ids(normalized.result) = Ids(SelectSeq(games, Passes))

\* the live filter kept the game at halftime and dropped the final one
C20_Witness ==
    /\ normalized.op = "get_matches"
    /\ normalized.status = "live"
    /\ normalized.fetched
    /\ Len(raw.data.events) = 2
    /\ raw.data.events[1].status_name = "STATUS_FINAL"
    /\ raw.data.events[2].status_name = "STATUS_HALFTIME"
    /\ Ids(normalized.result) = <<2>>
    /\ normalized.result[1].status = "live"

----------------------------------------------------------------------------
(* League-name normalization *)

LeagueOps == {"_normalize_football_league", "_normalize_league"}

\* what the claim says a league argument normalizes to
LeagueClaimed(league) ==
    IF Lower(league) \in DOMAIN FOOTBALL_LEAGUES
    THEN FOOTBALL_LEAGUES[Lower(league)]
    ELSE league

\* C21: in the gateway and in the domain service, a league name whose
\* lower-case form is a key of FOOTBALL_LEAGUES normalizes to that key's code
\* whatever its letter case, any other name is returned unchanged, and a
\* normalized code normalizes to itself.
C21_LeagueLookupWithIdentityFallback ==
    normalized.op \in LeagueOps =>
        LET code == normalized.result[1] IN
        /\ code = LeagueClaimed(raw.data.league)
        /\ normalized.op = "_normalize_football_league" =>
               _normalize_football_league(code) = code
        /\ normalized.op = "_normalize_league" => _normalize_league(code) = code

----------------------------------------------------------------------------
(* Metadata handed to the collection *)

Primitive == {"str", "int", "float", "bool"}

----------------------------------------------------------------------------
(* Upstream failures *)

UpstreamFailed(upstream) ==
    \/ upstream.failure # NoError
    \/ upstream.status_code \notin 200..299

\* C23: when the transport fails (a timeout included) or the upstream answers
\* with a status outside 2xx, _sync_request raises nothing and returns an
\* empty dict.
C23_FetchReturnsEmptyOnFailure ==
    (normalized.op = "_sync_request" /\ UpstreamFailed(raw.data)) =>
        /\ ~normalized.raised
        /\ normalized.result = <<EmptyResult>>

C23_Witness ==
    /\ normalized.op = "_sync_request"
    /\ raw.data.failure = NoError
    /\ raw.data.status_code = 404
    /\ normalized.result = <<EmptyResult>>

----------------------------------------------------------------------------
(* Concurrent confirm-adds *)

\* both workers ran the same confirm-add for the same key, ignoring letter
\* case, and each found the key absent
BothFoundAbsent(tool) ==
    /\ \A s \in Sessions :
           /\ worker[s].at = "done"
           /\ worker[s].tool = tool
           /\ ~worker[s].present
    /\ \A s, t \in Sessions :
           \A i \in 1..Len(worker[s].key) :
               Lower(worker[s].key[i]) = Lower(worker[t].key[i])

\* C24: nothing serializes the confirm-adds of two sessions: when both have
\* made the duplicate check for the same key and found it absent, both
\* append, and the collection holds two entries with that key.
C24_BothAppendAfterBothCheck ==
    /\ BothFoundAbsent("confirm_add_favorite_team") =>
           Cardinality(TeamIndex(favorite_teams, worker["s1"].key[1])) >= 2
    /\ BothFoundAbsent("confirm_add_to_calendar") =>
           Cardinality(CalendarIndex(user_calendar, worker["s1"].key[1],
                                     worker["s1"].key[2])) >= 2

C24_Witness ==
    /\ BothFoundAbsent("confirm_add_to_calendar")
    /\ Len(user_calendar) = 2
    /\ Lower(user_calendar[1].home_team) = Lower(user_calendar[2].home_team)
    /\ Lower(user_calendar[1].away_team) = Lower(user_calendar[2].away_team)

----------------------------------------------------------------------------
(* Home and away *)

----------------------------------------------------------------------------
(* Standings shapes *)

Labelled(entries, conference, division) ==
    [i \in 1..Len(entries) |->
        [team |-> entries[i].team, conference |-> conference, division |-> division]]

\* the team, conference and division the claim gives every upstream entry
StandingsClaimed(standings_data) ==
    IF standings_data.children = <<>>
    THEN Labelled(standings_data.entries, "", "")
    ELSE Flatten([k \in 1..Len(standings_data.children) |->
            LET group == standings_data.children[k] IN
            IF group.children = <<>>
            THEN Labelled(group.entries, group.name, "")
            ELSE Flatten([j \in 1..Len(group.children) |->
                    Labelled(group.children[j].entries, group.name,
                             group.children[j].name)])])

\* C26: parse_football_standings returns one entry per upstream entry, in
\* order, for the flat, the one-level and the two-level shape: conference
\* and division are "" for a flat entry, the group name and "" under one
\* level, the group name and the subgroup name under two levels.
C26_OneEntryPerUpstreamEntry ==
    normalized.op = "parse_football_standings" =>
        /\ ~normalized.raised
        /\ [k \in 1..Len(normalized.result) |->
               [team |-> normalized.result[k].team,
                conference |-> normalized.result[k].conference,
                division |-> normalized.result[k].division]]
           = StandingsClaimed(raw.data)

----------------------------------------------------------------------------
(* Approvals *)

\* tool_call ids of the gated tools run so far in a session
ApprovedIds(s) ==
    {messages[s][i].tool_call_id :
        i \in {j \in 1..Len(messages[s]) :
                  /\ messages[s][j].type = "tool"
                  /\ messages[s][j].name \in APPROVAL_REQUIRED_TOOLS}}

\* approve_action runs the pending tool of session s in this step
ApproveRuns(s) ==
    /\ pc[s] = "idle"
    /\ pc'[s] = "retrieve_knowledge"
    /\ req'[s].kind = "approve"

\* approve_action answers session s in this step with nothing pending
ApproveFindsNothing(s) ==
    /\ pc[s] = "idle"
    /\ pending_approval[s] = None
    /\ response'[s] # response[s]
    /\ response'[s].kind = "approve"

\* C27: a pending action is executed at most once: approve_action runs one
\* tool, the pending one, which no approval has run before, and clears the
\* session's pending action; an approve_action that finds nothing pending
\* runs nothing and returns approved = false.
C27_PendingExecutedAtMostOnce ==
    [][\A s \in Sessions :
          /\ ApproveRuns(s) =>
                /\ pending_approval[s] # None
                /\ pending_approval[s].tool_call_id \notin ApprovedIds(s)
                /\ ApprovedIds(s)' = ApprovedIds(s) \cup {pending_approval[s].tool_call_id}
                /\ Len(executed'[s]) = 1
                /\ pending_approval'[s] = None
          /\ ApproveFindsNothing(s) =>
                /\ ~response'[s].approved
                /\ UNCHANGED <<registryVars, vs_favorites, messages, pending_approval>>
      ]_vars

C27_Witness ==
    \E s \in Sessions :
        /\ ApprovedIds(s) # {}
        /\ pending_approval[s] = None
        /\ pc[s] = "idle"
        /\ response[s].kind = "approve"
        /\ response[s].outcome = "ok"
        /\ ~response[s].approved

----------------------------------------------------------------------------
(* Sessions *)

\* the step belongs to a request of session s
StepOf(s) == pc[s] # "idle" \/ pc'[s] # "idle" \/ response'[s] # response[s]

\* C28: conversation state is per session: a step of one session's chat turn
\* or approval leaves the pending action and the message history of every
\* other session as they are, an approval runs the pending action of its own
\* session, and a reply reports the pending action of its own session, under
\* every interleaving of the requests of different sessions.
C28_SessionsAreIsolated ==
    [][\A s \in Sessions :
          /\ (messages'[s] # messages[s] \/ pending_approval'[s] # pending_approval[s]) =>
                /\ StepOf(s)
                /\ \A t \in Sessions \ {s} :
                       /\ messages'[t] = messages[t]
                       /\ pending_approval'[t] = pending_approval[t]
          /\ ApproveRuns(s) =>
                /\ executed'[s][1].id = pending_approval[s].tool_call_id
                /\ executed'[s][1].name = pending_approval[s].tool_name
          /\ response'[s] # response[s] =>
                response'[s].pending_approval \in {None, pending_approval[s]}
      ]_vars

C28_Witness ==
    /\ pc = [s \in Sessions |-> "idle"]
    /\ pending_approval["s1"].tool_call_id = 1
    /\ response["s2"].kind = "chat"
    /\ response["s2"].outcome = "ok"
    /\ \E i \in 1..Len(messages["s2"]) :
           /\ messages["s2"][i].type = "tool"
           /\ messages["s2"][i].tool_call_id = 2

----------------------------------------------------------------------------
(* Termination *)

ChatTurnRunning(s) == req[s].kind = "chat" /\ pc[s] # "idle"
ChatTurnReturned(s) == pc[s] = "idle" /\ response[s].kind = "chat"

\* C29: every chat turn terminates: whatever the LLM answers at each step,
\* also when it keeps emitting tool calls or re-emits the gated call after
\* the approval gate, the turn takes at most RecursionLimit supersteps and
\* process_message returns a response.
C29_ChatTurnTerminates ==
    /\ [](\A s \in Sessions : step[s] <= RecursionLimit)
    /\ ChatTurnRunning("s1") ~> ChatTurnReturned("s1")
    /\ ChatTurnRunning("s2") ~> ChatTurnReturned("s2")

\* the gate handed control back twice and the turn was cut off and answered
C29_Witness ==
    \E s \in Sessions :
        /\ ChatTurnReturned(s)
        /\ step[s] = RecursionLimit
        /\ response[s].outcome = "error"
        /\ Cardinality({i \in 1..Len(messages[s]) :
                           /\ messages[s][i].type = "ai"
                           /\ GatedCalls(messages[s][i].tool_calls) # {}}) >= 2

----------------------------------------------------------------------------
(* Confirmed removals *)

\* the step of a confirmed removal of a present key: the one matching entry
\* is gone, the others are where they were, the key is absent afterwards
RemovesOne(coll, collNext, matching, matchingNext) ==
    /\ Cardinality(matching) = 1
    /\ Len(collNext) = Len(coll) - 1
    /\ \A j \in 1..Len(collNext) :
           collNext[j] = IF j < FirstOf(matching) THEN coll[j] ELSE coll[j + 1]
    /\ matchingNext = {}

\* C30: a confirmed removal of a present calendar entry, favorite team or
\* favorite player removes exactly the one entry whose key matches ignoring
\* letter case, makes that collection one shorter and leaves its other
\* entries and the other two collections unchanged; the key is then absent,
\* and a later confirm-add of it appends it again.
C30_ConfirmedRemovalRemovesOne ==
    [][ /\ (last_call'.op = "confirm_remove_favorite_team" /\ last_call'.present) =>
              /\ RemovesOne(favorite_teams, favorite_teams',
                            TeamIndex(favorite_teams, last_call'.key[1]),
                            TeamIndex(favorite_teams', last_call'.key[1]))
              /\ UNCHANGED <<favorite_players, user_calendar>>
        /\ (last_call'.op = "confirm_remove_favorite_player" /\ last_call'.present) =>
              /\ RemovesOne(favorite_players, favorite_players',
                            PlayerIndex(favorite_players, last_call'.key[1]),
                            PlayerIndex(favorite_players', last_call'.key[1]))
              /\ UNCHANGED <<favorite_teams, user_calendar>>
        /\ (last_call'.op = "confirm_remove_from_calendar" /\ last_call'.present) =>
              /\ RemovesOne(user_calendar, user_calendar',
                            CalendarIndex(user_calendar, last_call'.key[1],
                                          last_call'.key[2]),
                            CalendarIndex(user_calendar', last_call'.key[1],
                                          last_call'.key[2]))
              /\ UNCHANGED <<favorite_teams, favorite_players>>
        /\ (last_call'.op = "confirm_add_favorite_team" /\ ~last_call'.present) =>
              TeamIndex(favorite_teams', last_call'.key[1]) = {Len(favorite_teams) + 1}
        /\ (last_call'.op = "confirm_add_favorite_player" /\ ~last_call'.present) =>
              PlayerIndex(favorite_players', last_call'.key[1]) =
                  {Len(favorite_players) + 1}
        /\ (last_call'.op = "confirm_add_to_calendar" /\ ~last_call'.present) =>
              CalendarIndex(user_calendar', last_call'.key[1], last_call'.key[2]) =
                  {Len(user_calendar) + 1}
      ]_vars

\* a pair was removed from a calendar of two and confirmed again: the two
\* entries carry the id that only a calendar of one hands out
C30_Witness ==
    /\ last_call.op = "confirm_add_to_calendar"
    /\ ~last_call.present
    /\ Len(user_calendar) = 2
    /\ user_calendar[1].id = 2
    /\ user_calendar[2].id = 2
    /\ Lower(user_calendar[2].home_team) = Lower(last_call.key[1])

====
